---- MODULE Spec2Model ----
(***************************************************************************)
(* A model of libcarina's credentials bundle (credentials.go): a bundle is  *)
(* loaded from a directory, then ParseHost, GetTLSConfig and Verify are     *)
(* called on it.  Strings are sequences of one-character strings, so that   *)
(* strings.Split, strings.TrimSpace and url.Parse are computed character by *)
(* character, as the Go code computes them.  The second part is a model of  *)
(* the API client (libcarina.go): the calls of a CarinaClient against a     *)
(* server, GetCredentials building a bundle from a ZIP archive.             *)
(***************************************************************************)
EXTENDS Integers, Sequences, FiniteSets, TLC

VARIABLES disk, creds, pc, ret, api, out

vars == <<disk, creds, pc, ret, api, out>>

(***************************************************************************)
(* Bounds of the model.                                                     *)
(***************************************************************************)
\* the number of lines of a docker.env or kubectl.config on disk
MaxLines == 2
\* the number of entries of a ZIP archive
MaxEntries == 2
\* the number of versions a server advertises
MaxVersions == 2

(***************************************************************************)
(* Go's strings package, on sequences of characters.                        *)
(***************************************************************************)
HasPrefix(s, p) == Len(s) >= Len(p) /\ SubSeq(s, 1, Len(p)) = p

\* strings.Index, 1-based; 0 when substr does not occur (Go's -1)
Index(s, substr) ==
    LET hits == {i \in 1..(Len(s) - Len(substr) + 1) :
                    SubSeq(s, i, i + Len(substr) - 1) = substr}
    IN  IF hits = {} THEN 0 ELSE CHOOSE i \in hits : \A j \in hits : i <= j

\* strings.LastIndex, 1-based; 0 when substr does not occur
LastIndex(s, substr) ==
    LET hits == {i \in 1..(Len(s) - Len(substr) + 1) :
                    SubSeq(s, i, i + Len(substr) - 1) = substr}
    IN  IF hits = {} THEN 0 ELSE CHOOSE i \in hits : \A j \in hits : i >= j

Contains(s, substr) == Index(s, substr) # 0

\* strings.Split with a non-empty separator: the segments between the
\* non-overlapping occurrences of sep, found left to right
RECURSIVE Split(_, _)
Split(s, sep) ==
    LET i == Index(s, sep)
    IN  IF i = 0 THEN <<s>>
        ELSE <<SubSeq(s, 1, i - 1)>> \o Split(SubSeq(s, i + Len(sep), Len(s)), sep)

\* unicode.IsSpace on the characters of the model
IsSpace(c) == c \in {" ", "\t", "\n", "\r"}

\* strings.TrimSpace
TrimSpace(s) ==
    LET keep == {i \in 1..Len(s) : ~IsSpace(s[i])}
    IN  IF keep = {} THEN <<>>
        ELSE SubSeq(s, CHOOSE i \in keep : \A j \in keep : i <= j,
                       CHOOSE i \in keep : \A j \in keep : i >= j)

UpperLetters == <<"A","B","C","D","E","F","G","H","I","J","K","L","M",
                  "N","O","P","Q","R","S","T","U","V","W","X","Y","Z">>
LowerLetters == <<"a","b","c","d","e","f","g","h","i","j","k","l","m",
                  "n","o","p","q","r","s","t","u","v","w","x","y","z">>
Digits == {"0","1","2","3","4","5","6","7","8","9"}

IsLetter(c) == \E i \in 1..26 : c = UpperLetters[i] \/ c = LowerLetters[i]

\* strings.ToLower
ToLower(s) ==
    [i \in 1..Len(s) |->
        IF \E k \in 1..26 : s[i] = UpperLetters[k]
        THEN LowerLetters[CHOOSE k \in 1..26 : s[i] = UpperLetters[k]]
        ELSE s[i]]

(***************************************************************************)
(* Go's net/url.Parse, as far as ParseHost reads its result: the scheme and *)
(* the host of the URL, or an error.  The model covers URLs without '%'     *)
(* escapes and without '@' user information.                                *)
(***************************************************************************)
URL(scheme, host) == [err |-> FALSE, Scheme |-> scheme, Host |-> host]
URLError == [err |-> TRUE, Scheme |-> <<>>, Host |-> <<>>]

\* url.getScheme: [ok, scheme, rest]; ok is FALSE for "missing protocol scheme"
RECURSIVE getSchemeFrom(_, _)
getSchemeFrom(rawURL, i) ==
    IF i > Len(rawURL) THEN [ok |-> TRUE, scheme |-> <<>>, rest |-> rawURL]
    ELSE LET c == rawURL[i]
         IN  IF IsLetter(c) THEN getSchemeFrom(rawURL, i + 1)
             ELSE IF c \in Digits \cup {"+", "-", "."}
                  THEN IF i = 1
                       THEN [ok |-> TRUE, scheme |-> <<>>, rest |-> rawURL]
                       ELSE getSchemeFrom(rawURL, i + 1)
             ELSE IF c = ":"
                  THEN IF i = 1
                       THEN [ok |-> FALSE, scheme |-> <<>>, rest |-> <<>>]
                       ELSE [ok |-> TRUE, scheme |-> SubSeq(rawURL, 1, i - 1),
                             rest |-> SubSeq(rawURL, i + 1, Len(rawURL))]
             \* an invalid character: there is no valid scheme
             ELSE [ok |-> TRUE, scheme |-> <<>>, rest |-> rawURL]

getScheme(rawURL) == getSchemeFrom(rawURL, 1)

\* url.validOptionalPort: "" or ":" followed by digits only
validOptionalPort(port) ==
    \/ port = <<>>
    \/ /\ port[1] = ":"
       /\ \A i \in 2..Len(port) : port[i] \in Digits

\* the characters url.unescape rejects in a host (mode encodeHost), among Chars
InvalidHostChar(c) == c \in {" ", "\t", "/", "#", "?"}

\* url.parseHost within url.parseAuthority: the URL of the scheme and the
\* host, or an error for a bad port or a character no host may hold
urlParseHost(scheme, host) ==
    IF /\ IF HasPrefix(host, <<"[">>)
          THEN /\ LastIndex(host, <<"]">>) # 0
               /\ validOptionalPort(
                     SubSeq(host, LastIndex(host, <<"]">>) + 1, Len(host)))
          ELSE \/ LastIndex(host, <<":">>) = 0
               \/ validOptionalPort(
                     SubSeq(host, LastIndex(host, <<":">>), Len(host)))
       /\ \A i \in 1..Len(host) : ~InvalidHostChar(host[i])
    THEN URL(scheme, host)
    ELSE URLError

\* strings.Cut(s, sep), the part before sep
CutBefore(s, sep) ==
    LET i == Index(s, sep) IN IF i = 0 THEN s ELSE SubSeq(s, 1, i - 1)

\* url.parse after the scheme: the authority between "//" and the next "/"
urlParseRest(scheme, rest) ==
    IF ~HasPrefix(rest, <<"/">>) /\ scheme # <<>>
    \* a rootless path after a scheme is opaque: the URL has no host
    THEN URL(scheme, <<>>)
    ELSE IF ~HasPrefix(rest, <<"/">>)
            /\ Contains(CutBefore(rest, <<"/">>), <<":">>)
         \* "first path segment in URL cannot contain colon"
         THEN URLError
    ELSE IF HasPrefix(rest, <<"/", "/">>)
            /\ (scheme # <<>> \/ ~HasPrefix(rest, <<"/", "/", "/">>))
         THEN urlParseHost(scheme, CutBefore(SubSeq(rest, 3, Len(rest)), <<"/">>))
    ELSE URL(scheme, <<>>)

\* url.parse once getScheme has returned: the scheme in lower case, the
\* query cut off
urlParseScheme(sch) ==
    IF ~sch.ok THEN URLError
    ELSE urlParseRest(ToLower(sch.scheme), CutBefore(sch.rest, <<"?">>))

\* url.parse: no control character may occur; "*" is a path
urlParseNoFragment(u) ==
    IF \E i \in 1..Len(u) : u[i] \in {"\t", "\n", "\r"} THEN URLError
    ELSE IF u = <<"*">> THEN URL(<<>>, <<>>)
    ELSE urlParseScheme(getScheme(u))

\* url.Parse: the fragment is cut off, the rest parsed
urlParse(rawURL) == urlParseNoFragment(CutBefore(rawURL, <<"#">>))

(***************************************************************************)
(* Errors.  An error is a record of its message (kind) and the value the    *)
(* message is formatted with (arg).                                         *)
(***************************************************************************)
Error(kind, arg) == [kind |-> kind, arg |-> arg]
nil == Error("nil", <<>>)

\* credentials.go:38 and :47, the deferred errors of LoadCredentialsBundle
ErrCannotList == Error("Cannot list files", <<>>)
ErrCannotRead(name) == Error("Cannot read", <<name>>)
\* credentials.go:105, :110, :113, :118, :127, the errors of ParseHost
ErrNoDockerHost == Error("Could not parse DOCKER_HOST from docker.env", <<>>)
ErrNoServer == Error("Could not parse server from kubectl.config", <<>>)
ErrMissingBoth == Error("Missing both docker.env and kubectl.config", <<>>)
ErrBadHostURL(host) == Error("Bad host URL", host)
ErrNoPort(host) == Error("Could not determine the host port", host)
\* credentials.go:156 and :90
ErrKeypair == Error("Keypair mis-match", <<>>)
ErrConnect(host) == Error("Unable to connect", host)

(***************************************************************************)
(* The endpoint tokens and the file names.                                  *)
(***************************************************************************)
DOCKER_HOST == <<"D","O","C","K","E","R","_","H","O","S","T","=">>
SERVER == <<"s","e","r","v","e","r",":">>

DockerEnv == "docker.env"
KubectlConfig == "kubectl.config"
CaPem == "ca.pem"
CertPem == "cert.pem"
KeyPem == "key.pem"

\* a read of a Go map: the value and whether the key is present
Has(files, name) == name \in DOMAIN files
Lookup(files, name) == IF Has(files, name) THEN files[name] ELSE <<>>

(***************************************************************************)
(* parseHost and ParseHost                                                  *)
(***************************************************************************)
\* the loop of parseHost over the lines from line i on: [host, ok]
RECURSIVE parseHostFrom(_, _, _)
parseHostFrom(lines, token, i) ==
    IF i > Len(lines) THEN [host |-> <<>>, ok |-> FALSE]
    ELSE LET host == Split(lines[i], token)
         IN  IF Len(host) = 2
             THEN [host |-> TrimSpace(host[2]), ok |-> TRUE]
             ELSE parseHostFrom(lines, token, i + 1)

\* mutant: a line that ends with the token is passed over
RECURSIVE parseHostFrom_SkipsEmpty(_, _, _)
parseHostFrom_SkipsEmpty(lines, token, i) ==
    IF i > Len(lines) THEN [host |-> <<>>, ok |-> FALSE]
    ELSE LET host == Split(lines[i], token)
         IN  IF Len(host) = 2 /\ host[2] # <<>>
             THEN [host |-> TrimSpace(host[2]), ok |-> TRUE]
             ELSE parseHostFrom_SkipsEmpty(lines, token, i + 1)

parseHost_SkipsEmpty(config, token) ==
    parseHostFrom_SkipsEmpty(Split(config, <<"\n">>), token, 1)

\* mutant: a line with the token twice or more is a match (len(host) >= 2)
RECURSIVE parseHostFrom_AtLeastTwo(_, _, _)
parseHostFrom_AtLeastTwo(lines, token, i) ==
    IF i > Len(lines) THEN [host |-> <<>>, ok |-> FALSE]
    ELSE LET host == Split(lines[i], token)
         IN  IF Len(host) >= 2
             THEN [host |-> TrimSpace(host[2]), ok |-> TRUE]
             ELSE parseHostFrom_AtLeastTwo(lines, token, i + 1)

parseHost_AtLeastTwo(config, token) ==
    parseHostFrom_AtLeastTwo(Split(config, <<"\n">>), token, 1)

\* mutant: the loop does not return at the first match, the last match wins
RECURSIVE parseHostFrom_LastMatch(_, _, _, _)
parseHostFrom_LastMatch(lines, token, i, found) ==
    IF i > Len(lines) THEN found
    ELSE LET host == Split(lines[i], token)
         IN  parseHostFrom_LastMatch(lines, token, i + 1,
                IF Len(host) = 2 THEN [host |-> TrimSpace(host[2]), ok |-> TRUE]
                ELSE found)

parseHost_LastMatch(config, token) ==
    parseHostFrom_LastMatch(Split(config, <<"\n">>), token, 1,
                            [host |-> <<>>, ok |-> FALSE])

parseHost(config, token) == parseHostFrom(Split(config, <<"\n">>), token, 1)

\* mutant: the candidate is returned as it is, its scheme included
HostOfCandidate_KeepsScheme(host) ==
    LET hostURL == urlParse(host)
    IN  IF hostURL.err THEN [host |-> <<>>, err |-> ErrBadHostURL(host)]
        ELSE IF ~Contains(hostURL.Host, <<":">>)
             THEN IF hostURL.Scheme = <<"h","t","t","p","s">>
                  THEN [host |-> host \o <<":","4","4","3">>, err |-> nil]
                  ELSE [host |-> <<>>, err |-> ErrNoPort(host)]
        ELSE [host |-> host, err |-> nil]

\* the port check of ParseHost on the parsed candidate host: [host, err]
HostOfURL(host, hostURL) ==
    IF hostURL.err THEN [host |-> <<>>, err |-> ErrBadHostURL(host)]
    ELSE IF ~Contains(hostURL.Host, <<":">>)
         THEN IF hostURL.Scheme = <<"h","t","t","p","s">>
              THEN [host |-> hostURL.Host \o <<":","4","4","3">>, err |-> nil]
              ELSE [host |-> <<>>, err |-> ErrNoPort(host)]
    ELSE [host |-> hostURL.Host, err |-> nil]

\* ParseHost from url.Parse on: [host, err]
HostOfCandidate(host) == HostOfURL(host, urlParse(host))

\* ParseHost once parseHost has returned r = [host, ok]: the error of the
\* file when no line matched
HostOfMatch(r, notFound) ==
    IF ~r.ok THEN [host |-> <<>>, err |-> notFound] ELSE HostOfCandidate(r.host)

\* mutant: a docker.env without a match falls through to kubectl.config
ParseHost_FallsThrough(c) ==
    IF Has(c.Files, DockerEnv) /\ parseHost(c.Files[DockerEnv], DOCKER_HOST).ok
    THEN HostOfCandidate(parseHost(c.Files[DockerEnv], DOCKER_HOST).host)
    ELSE IF Has(c.Files, KubectlConfig)
    THEN LET r == parseHost(c.Files[KubectlConfig], SERVER)
         IN  IF ~r.ok THEN [host |-> <<>>, err |-> ErrNoServer]
             ELSE HostOfCandidate(r.host)
    ELSE IF Has(c.Files, DockerEnv) THEN [host |-> <<>>, err |-> ErrNoDockerHost]
    ELSE [host |-> <<>>, err |-> ErrMissingBoth]

\* mutant: a file without its token is reported as a missing file
ParseHost_MissingOnNoToken(c) ==
    IF Has(c.Files, DockerEnv)
    THEN LET r == parseHost(c.Files[DockerEnv], DOCKER_HOST)
         IN  IF ~r.ok THEN [host |-> <<>>, err |-> ErrMissingBoth]
             ELSE HostOfCandidate(r.host)
    ELSE IF Has(c.Files, KubectlConfig)
    THEN LET r == parseHost(c.Files[KubectlConfig], SERVER)
         IN  IF ~r.ok THEN [host |-> <<>>, err |-> ErrMissingBoth]
             ELSE HostOfCandidate(r.host)
    ELSE [host |-> <<>>, err |-> ErrMissingBoth]

\* CredentialsBundle.ParseHost: [host, err]
ParseHost(c) ==
    IF Has(c.Files, DockerEnv)
    THEN HostOfMatch(parseHost(c.Files[DockerEnv], DOCKER_HOST), ErrNoDockerHost)
    ELSE IF Has(c.Files, KubectlConfig)
    THEN HostOfMatch(parseHost(c.Files[KubectlConfig], SERVER), ErrNoServer)
    ELSE [host |-> <<>>, err |-> ErrMissingBoth]

(***************************************************************************)
(* crypto/tls and crypto/x509, abstracted: a PEM file is a tag and the      *)
(* identity of the key pair or authority it belongs to.                     *)
(***************************************************************************)
PairIds == {"1", "2"}
CertOf(n) == <<"C", n>>
KeyOf(n) == <<"K", n>>
CAOf(n) == <<"A", n>>
Garbage == <<"x">>

\* tls.X509KeyPair: the pair loads when the key is the certificate's key
X509KeyPair(cert, key) ==
    IF \E n \in PairIds : cert = CertOf(n) /\ key = KeyOf(n)
    THEN [ok |-> TRUE, keypair |-> <<cert, key>>]
    ELSE [ok |-> FALSE, keypair |-> <<>>]

\* a PEM file that holds a certificate (x509.ParseCertificate succeeds on it)
IsCertificatePEM(pem) == \E n \in PairIds : pem = CAOf(n) \/ pem = CertOf(n)

\* CertPool.AppendCertsFromPEM: what does not parse is skipped
AppendCertsFromPEM(pool, pem) ==
    IF IsCertificatePEM(pem) THEN pool \cup {pem} ELSE pool

GetCA(c) == Lookup(c.Files, CaPem)
GetCert(c) == Lookup(c.Files, CertPem)
GetKey(c) == Lookup(c.Files, KeyPem)

NoConfig == [InsecureSkipVerify |-> FALSE, RootCAs |-> {}, Certificates |-> <<>>]

\* GetTLSConfig, had it added cert.pem to the root pool as well
GetTLSConfig_PoolFromCert(c) ==
    LET certPool == AppendCertsFromPEM(AppendCertsFromPEM({}, GetCA(c)), GetCert(c))
        kp == X509KeyPair(GetCert(c), GetKey(c))
        tlsConfig == [InsecureSkipVerify |-> TRUE, RootCAs |-> certPool,
                      Certificates |-> <<>>]
    IN  IF ~kp.ok THEN [tls |-> tlsConfig, err |-> ErrKeypair]
        ELSE [tls |-> [tlsConfig EXCEPT !.Certificates = <<kp.keypair>>],
              err |-> nil]

\* GetTLSConfig, had it failed on a ca.pem that holds no certificate
GetTLSConfig_FailsOnBadCA(c) ==
    LET certPool == AppendCertsFromPEM({}, GetCA(c))
        kp == X509KeyPair(GetCert(c), GetKey(c))
        tlsConfig == [InsecureSkipVerify |-> TRUE, RootCAs |-> certPool,
                      Certificates |-> <<>>]
    IN  IF ~kp.ok \/ certPool = {} THEN [tls |-> tlsConfig, err |-> ErrKeypair]
        ELSE [tls |-> [tlsConfig EXCEPT !.Certificates = <<kp.keypair>>],
              err |-> nil]

\* GetTLSConfig, had it dropped the error of tls.X509KeyPair
GetTLSConfig_IgnoresKeypairError(c) ==
    LET certPool == AppendCertsFromPEM({}, GetCA(c))
        kp == X509KeyPair(GetCert(c), GetKey(c))
        tlsConfig == [InsecureSkipVerify |-> TRUE, RootCAs |-> certPool,
                      Certificates |-> <<>>]
    IN  [tls |-> [tlsConfig EXCEPT !.Certificates = <<kp.keypair>>], err |-> nil]

\* CredentialsBundle.GetTLSConfig: [tls, err]
GetTLSConfig(c) ==
    LET certPool == AppendCertsFromPEM({}, GetCA(c))
        kp == X509KeyPair(GetCert(c), GetKey(c))
        tlsConfig == [InsecureSkipVerify |-> TRUE, RootCAs |-> certPool,
                      Certificates |-> <<>>]
    IN  IF ~kp.ok THEN [tls |-> tlsConfig, err |-> ErrKeypair]
        ELSE [tls |-> [tlsConfig EXCEPT !.Certificates = <<kp.keypair>>],
              err |-> nil]

\* VerifyWith, had it looked at the host before the TLS configuration
VerifyWith_HostFirst(t, h, dialOK) ==
    IF h.err # nil THEN [err |-> h.err, dialed |-> <<>>, open |-> 0]
    ELSE IF t.err # nil THEN [err |-> t.err, dialed |-> <<>>, open |-> 0]
    ELSE IF ~dialOK
         THEN [err |-> ErrConnect(h.host), dialed |-> <<h.host>>, open |-> 0]
    ELSE [err |-> nil, dialed |-> <<h.host>>, open |-> 0]

\* VerifyWith, had it not closed the connection
VerifyWith_LeavesOpen(t, h, dialOK) ==
    IF t.err # nil THEN [err |-> t.err, dialed |-> <<>>, open |-> 0]
    ELSE IF h.err # nil THEN [err |-> h.err, dialed |-> <<>>, open |-> 0]
    ELSE IF ~dialOK
         THEN [err |-> ErrConnect(h.host), dialed |-> <<h.host>>, open |-> 0]
    ELSE [err |-> nil, dialed |-> <<h.host>>, open |-> 1]

\* Verify once GetTLSConfig has returned t and ParseHost h (ParseHost is
\* called only when t.err is nil; it has no effect), dialOK being the outcome
\* of the TLS dial: [err, dialed (the hosts dialed), open (the connections
\* left open)]
VerifyWith(t, h, dialOK) ==
    IF t.err # nil THEN [err |-> t.err, dialed |-> <<>>, open |-> 0]
    ELSE IF h.err # nil THEN [err |-> h.err, dialed |-> <<>>, open |-> 0]
    ELSE IF ~dialOK
         THEN [err |-> ErrConnect(h.host), dialed |-> <<h.host>>, open |-> 0]
    \* conn.Close()
    ELSE [err |-> nil, dialed |-> <<h.host>>, open |-> 0]

\* CredentialsBundle.Verify
Verify(c, dialOK) ==
    IF c.Err # nil THEN [err |-> c.Err, dialed |-> <<>>, open |-> 0]
    ELSE VerifyWith(GetTLSConfig(c), ParseHost(c), dialOK)

(***************************************************************************)
(* LoadCredentialsBundle.  A directory on disk: whether it can be listed,   *)
(* its regular files, those of them that cannot be read, and its            *)
(* subdirectories.                                                          *)
(***************************************************************************)
EmptyFiles == [n \in {} |-> <<>>]

\* the zero value of CredentialsBundle (var creds CredentialsBundle)
ZeroBundle == [Files |-> EmptyFiles, Err |-> nil]

\* a subdirectory of the credentials directory
SubDir == "certs"

\* ioutil.ReadDir returns the entries, subdirectories included, sorted by
\* file name
NameOrder == <<CaPem, CertPem, SubDir, DockerEnv, KeyPem, KubectlConfig>>

ReadDir(d) ==
    SelectSeq(NameOrder, LAMBDA n : n \in DOMAIN d.files \cup d.subdirs)

\* ioutil.ReadFile fails on a file that cannot be read and on a directory
ReadFileFails(d, name) == name \in d.unreadable \cup d.subdirs

\* the loop of LoadCredentialsBundle, had it gone on after a failed read
RECURSIVE LoadFrom_KeepsGoing(_, _, _, _)
LoadFrom_KeepsGoing(d, files, i, c) ==
    IF i > Len(files) THEN c
    ELSE IF ReadFileFails(d, files[i])
         THEN LoadFrom_KeepsGoing(d, files, i + 1,
                                  [c EXCEPT !.Err = ErrCannotRead(files[i])])
    ELSE LoadFrom_KeepsGoing(d, files, i + 1,
                  [c EXCEPT !.Files = [n \in DOMAIN c.Files \cup {files[i]} |->
                        IF n = files[i] THEN d.files[n] ELSE c.Files[n]]])

\* the loop of LoadCredentialsBundle from entry i of files on
RECURSIVE LoadFrom(_, _, _, _)
LoadFrom(d, files, i, c) ==
    IF i > Len(files) THEN c
    ELSE IF ReadFileFails(d, files[i])
         THEN [c EXCEPT !.Err = ErrCannotRead(files[i])]
    ELSE LoadFrom(d, files, i + 1,
                  [c EXCEPT !.Files = [n \in DOMAIN c.Files \cup {files[i]} |->
                        IF n = files[i] THEN d.files[n] ELSE c.Files[n]]])

LoadCredentialsBundle(d) ==
    IF ~d.listable THEN [ZeroBundle EXCEPT !.Err = ErrCannotList]
    ELSE LoadFrom(d, ReadDir(d), 1, ZeroBundle)

(***************************************************************************)
(* The directories of the model.                                            *)
(***************************************************************************)
Tcp == <<"t","c","p",":","/","/">>
Https == <<"h","t","t","p","s",":","/","/">>
IPv6 == <<"[",":",":","1","]">>

\* what follows DOCKER_HOST= on a line of docker.env
DockerCandidates ==
    { <<" ">> \o Tcp \o <<"h",":","1"," ">>,   \* scheme://host:port in blanks
      Https \o <<"g",":","2">>,                \* https with a port
      Https \o <<"h">>,                        \* https without a port
      Tcp \o <<"h">>,                          \* another scheme without a port
      <<"h">>,                                 \* no scheme and no port
      Https \o IPv6,                           \* an IPv6 literal without a port
      Tcp \o IPv6,
      Tcp \o <<"h",":">>,                      \* a bare colon after the host
      Tcp \o <<"[",":",":","1">>,              \* not a URL: the bracket is not closed
      <<>> }                                   \* nothing after the token

DockerLines ==
    { <<"e"," ">> \o DOCKER_HOST \o c : c \in DockerCandidates }
    \cup { DOCKER_HOST \o DOCKER_HOST \o Tcp \o <<"h",":","1">>,  \* the token twice
           <<"#">> }                                             \* no token

KubeLines ==
    { <<" "," ">> \o SERVER \o <<" ">> \o Https \o <<"k">>,
      SERVER \o <<" ">> \o <<"f","t","p",":","/","/","k">>,
      <<"k","i","n","d">> }

SeqsUpTo(S, n) == UNION {[1..k -> S] : k \in 0..n}

\* the lines of a file, each but the last followed by a line feed
RECURSIVE Join(_)
Join(lines) ==
    IF lines = <<>> THEN <<>>
    ELSE IF Len(lines) = 1 THEN lines[1]
    ELSE lines[1] \o <<"\n">> \o Join(Tail(lines))

DockerContents == {Join(l) : l \in SeqsUpTo(DockerLines, MaxLines)}
KubeContents == {Join(l) : l \in SeqsUpTo(KubeLines, MaxLines)}

Absent == <<"absent">>

\* the files of a directory, from the content of each (Absent: no such file)
FilesOf(ca, cert, key, docker, kube) ==
    LET all == [n \in {CaPem, CertPem, DockerEnv, KeyPem, KubectlConfig} |->
                   CASE n = CaPem -> ca
                     [] n = CertPem -> cert
                     [] n = DockerEnv -> docker
                     [] n = KeyPem -> key
                     [] OTHER -> kube]
    IN  [n \in {m \in DOMAIN all : all[m] # Absent} |-> all[n]]

KubeValid == SERVER \o Https \o <<"k">>

\* readable directories with a valid key pair and any docker.env
EndpointDirs ==
    { [listable |-> TRUE, unreadable |-> {}, subdirs |-> {},
       files |-> FilesOf(CAOf("1"), CertOf("1"), KeyOf("1"), docker, kube)] :
      docker \in DockerContents \cup {Absent}, kube \in {Absent, KubeValid} }

\* readable directories with a valid key pair and any kubectl.config
KubeDirs ==
    { [listable |-> TRUE, unreadable |-> {}, subdirs |-> {},
       files |-> FilesOf(CAOf("1"), CertOf("1"), KeyOf("1"), docker, kube)] :
      docker \in {Absent, <<"#">>}, kube \in KubeContents }

\* directories with any PEM files and any failure of the load
PemDirs ==
    { [listable |-> l, unreadable |-> u, subdirs |-> {},
       files |-> FilesOf(ca, cert, key, docker, kube)] :
      l \in BOOLEAN, u \in {{}, {CaPem}, {DockerEnv}, {KubectlConfig}},
      ca \in {CAOf("1"), Garbage, Absent},
      cert \in {CertOf("1"), Garbage},
      key \in {KeyOf("1"), KeyOf("2"), Absent},
      docker \in {Absent, <<"#">>, DOCKER_HOST \o Tcp \o <<"h",":","1">>},
      kube \in {Absent, KubeValid} }

\* directories with a subdirectory beside the files
SubDirDirs ==
    { [listable |-> l, unreadable |-> u, subdirs |-> {SubDir},
       files |-> FilesOf(ca, CertOf("1"), KeyOf("1"), docker, Absent)] :
      l \in BOOLEAN, u \in {{}, {CaPem}, {KeyPem}},
      ca \in {CAOf("1"), Absent},
      docker \in {Absent, DOCKER_HOST \o Tcp \o <<"h",":","1">>} }

Dirs == EndpointDirs \cup KubeDirs \cup PemDirs \cup SubDirDirs

(***************************************************************************)
(* The API client (libcarina.go).  A URL, a path or the name of a ZIP entry *)
(* is a sequence of pieces in which every "/" is a piece of its own; a      *)
(* cluster id or name is a sequence of characters.                          *)
(***************************************************************************)
Slash == <<"/">>
CarinaEndpoint == <<"https://api.getcarina.com">>

\* what a call returns: a result that may be nil, an error, and the requests
\* the call has sent, each with the status it was answered with (0: no answer)
NilResult == [isNil |-> TRUE, val |-> <<>>]
Some(v) == [isNil |-> FALSE, val |-> v]
Return(result, err, reqs) == [result |-> result, err |-> err, reqs |-> reqs]
Request(method, url, status) ==
    [Method |-> method, URL |-> url, StatusCode |-> status]

\* HTTPErr{Method, URL, StatusCode}
HTTPErr(method, url, status) == Error("HTTPErr", <<status, method, url>>)
\* the 404 of lookupClusterID and lookupClusterName, made without a request
ErrNotFound(token) == Error("HTTPErr", <<404, "", token>>)
ErrNotUnique(token) == Error("The cluster is not unique", token)
\* the errors of the libraries
ErrTransport == Error("http: Client.Do", <<>>)
ErrJSON == Error("json: Decode", <<>>)
ErrZip == Error("zip: not a valid zip file", <<>>)
ErrOpen(name) == Error("zip: File.Open", name)
ErrReadAll(name) == Error("ioutil.ReadAll", name)

\* the server: the answer to the requests of each route, [sent (the request
\* got an answer), StatusCode, Body]; a body is [valid (it decodes, as JSON
\* or as a ZIP archive), value]
Routes == {"meta", "list", "create", "types", "item", "zip"}
Body(valid, value) == [valid |-> valid, value |-> value]
Answer(sent, status, body) == [sent |-> sent, StatusCode |-> status, Body |-> body]

\* the route of a request, by its method and the path after the endpoint
Route(method, url) ==
    LET segs == Split(SubSeq(url, Len(CarinaEndpoint) + 1, Len(url)), Slash)
    IN  CASE Len(segs) = 2 /\ segs[2] = <<>> -> "meta"
          [] Len(segs) = 2 /\ segs[2] = <<"cluster_types">> -> "types"
          [] Len(segs) = 2 /\ segs[2] = <<"clusters">> /\ method = "POST" -> "create"
          [] Len(segs) = 2 /\ segs[2] = <<"clusters">> -> "list"
          [] Len(segs) = 3 -> "item"
          [] OTHER -> "zip"

Do(a, method, url) == a[Route(method, url)]

\* CarinaClient.NewRequest, had it let the status 400 through
NewRequest_Above400(a, method, uri) ==
    LET url == CarinaEndpoint \o uri
        resp == Do(a, method, url)
    IN  IF ~resp.sent
        THEN Return(NilResult, ErrTransport, <<Request(method, url, 0)>>)
        ELSE IF resp.StatusCode > 400
        THEN Return(NilResult, HTTPErr(method, url, resp.StatusCode),
                    <<Request(method, url, resp.StatusCode)>>)
        ELSE Return(Some(resp), nil, <<Request(method, url, resp.StatusCode)>>)

\* CarinaClient.NewRequest
NewRequest(a, method, uri) ==
    LET url == CarinaEndpoint \o uri
        resp == Do(a, method, url)
    IN  IF ~resp.sent
        THEN Return(NilResult, ErrTransport, <<Request(method, url, 0)>>)
        ELSE IF resp.StatusCode >= 400
        THEN Return(NilResult, HTTPErr(method, url, resp.StatusCode),
                    <<Request(method, url, resp.StatusCode)>>)
        ELSE Return(Some(resp), nil, <<Request(method, url, resp.StatusCode)>>)

\* json.NewDecoder(resp.Body).Decode(&result) after a request r: the decoded
\* value, or the error of the request or of the decoder
Decoded(r) ==
    IF r.err # nil THEN Return(NilResult, r.err, r.reqs)
    ELSE IF ~r.result.val.Body.valid THEN Return(NilResult, ErrJSON, r.reqs)
    ELSE Return(Some(r.result.val.Body.value), nil, r.reqs)

\* CarinaClient.List
List(a) == Decoded(NewRequest(a, "GET", <<"/", "clusters">>))

\* CarinaClient.ListClusterTypes
ListClusterTypes(a) == Decoded(NewRequest(a, "GET", <<"/", "cluster_types">>))

\* CarinaClient.GetAPIMetadata
GetAPIMetadata(a) == Decoded(NewRequest(a, "GET", <<"/">>))

clusterFromResponse(r) == Decoded(r)

\* the regular expression of isClusterID
HexDigits == {"a","b","c","d","e","f","0","1","2","3","4","5","6","7","8","9"}
isClusterID(token) ==
    /\ Len(token) = 36
    /\ \A i \in 1..36 :
          CASE i \in {9, 14, 19, 24} -> token[i] = "-"
            [] i = 15 -> token[i] = "4"
            [] i = 20 -> token[i] \in {"8", "|", "9", "a", "A", "b", "B"}
            [] OTHER -> token[i] \in HexDigits

\* the loop of lookupClusterName: the name of the first cluster with the id
RECURSIVE NameOfID(_, _)
NameOfID(clusters, token) ==
    IF clusters = <<>> THEN <<>>
    ELSE IF ToLower(Head(clusters).ID) = ToLower(token) THEN Head(clusters).Name
    ELSE NameOfID(Tail(clusters), token)

lookupClusterNameIn(l, token) ==
    IF l.err # nil THEN Return(<<>>, l.err, l.reqs)
    ELSE IF NameOfID(l.result.val, token) = <<>>
    THEN Return(<<>>, ErrNotFound(token), l.reqs)
    ELSE Return(NameOfID(l.result.val, token), nil, l.reqs)

\* CarinaClient.lookupClusterName: [result (the name), err, reqs]
lookupClusterName(a, token) ==
    IF ~isClusterID(token) THEN Return(token, nil, <<>>)
    ELSE lookupClusterNameIn(List(a), token)

\* the loop of lookupClusterID: the id found so far, and whether it is unique
RECURSIVE IDOfName(_, _, _)
IDOfName(clusters, token, id) ==
    IF clusters = <<>> THEN [id |-> id, unique |-> TRUE]
    ELSE IF ToLower(Head(clusters).Name) = ToLower(token)
    THEN IF id # <<>> THEN [id |-> <<>>, unique |-> FALSE]
         ELSE IDOfName(Tail(clusters), token, Head(clusters).ID)
    ELSE IDOfName(Tail(clusters), token, id)

\* lookupClusterID, had it taken the first cluster of the name
lookupClusterIDIn_FirstMatch(l, token) ==
    IF l.err # nil THEN Return(<<>>, l.err, l.reqs)
    ELSE IF ~IDOfName(l.result.val, token, <<>>).unique
    THEN Return(Head(SelectSeq(l.result.val,
                    LAMBDA c : ToLower(c.Name) = ToLower(token))).ID, nil, l.reqs)
    ELSE IF IDOfName(l.result.val, token, <<>>).id = <<>>
    THEN Return(<<>>, ErrNotFound(token), l.reqs)
    ELSE Return(IDOfName(l.result.val, token, <<>>).id, nil, l.reqs)

lookupClusterIDIn(l, token) ==
    IF l.err # nil THEN Return(<<>>, l.err, l.reqs)
    ELSE IF ~IDOfName(l.result.val, token, <<>>).unique
    THEN Return(<<>>, ErrNotUnique(token), l.reqs)
    ELSE IF IDOfName(l.result.val, token, <<>>).id = <<>>
    THEN Return(<<>>, ErrNotFound(token), l.reqs)
    ELSE Return(IDOfName(l.result.val, token, <<>>).id, nil, l.reqs)

\* CarinaClient.lookupClusterID: [result (the id), err, reqs]
lookupClusterID(a, token) ==
    IF isClusterID(token) THEN Return(token, nil, <<>>)
    ELSE lookupClusterIDIn(List(a), token)

\* r, with the requests reqs sent before its own
WithEarlier(reqs, r) == [r EXCEPT !.reqs = reqs \o r.reqs]

\* path.Join("/clusters", id)
ClusterURI(id) == <<"/", "clusters", "/">> \o id

\* Get, and Delete: the lookup l of the id, then the request
OnCluster(a, method, l) ==
    IF l.err # nil THEN Return(NilResult, l.err, l.reqs)
    ELSE WithEarlier(l.reqs,
                clusterFromResponse(NewRequest(a, method, ClusterURI(l.result))))

\* CarinaClient.Get
Get(a, token) == OnCluster(a, "GET", lookupClusterID(a, token))

\* CarinaClient.Delete
Delete(a, token) == OnCluster(a, "DELETE", lookupClusterID(a, token))

\* CarinaClient.Create
Create(a) == clusterFromResponse(NewRequest(a, "POST", <<"/", "clusters">>))

\* CarinaClient.fetchZip: the entries of the archive (zip.Reader.File)
fetchZip(a, zipurl) ==
    LET resp == Do(a, "GET", zipurl)
    IN  IF ~resp.sent
        THEN Return(NilResult, ErrTransport, <<Request("GET", zipurl, 0)>>)
        ELSE IF resp.StatusCode >= 400
        THEN Return(NilResult, HTTPErr("GET", zipurl, resp.StatusCode),
                    <<Request("GET", zipurl, resp.StatusCode)>>)
        \* zip.NewReader
        ELSE IF ~resp.Body.valid
        THEN Return(NilResult, ErrZip, <<Request("GET", zipurl, resp.StatusCode)>>)
        ELSE Return(Some(resp.Body.value), nil,
                    <<Request("GET", zipurl, resp.StatusCode)>>)

\* an entry of a ZIP archive: its name, whether its mode says directory, its
\* content, and the step of reading it that fails ("": none)
ZipFile(name, modeDir, content, fails) ==
    [Name |-> name, ModeDir |-> modeDir, Content |-> content, fails |-> fails]

\* zip.FileHeader.FileInfo().IsDir(): the mode, or a name that ends with "/"
IsDir(zf) ==
    zf.ModeDir \/ (zf.Name # <<>> /\ zf.Name[Len(zf.Name)] = "/")

\* path.Split, had it returned the whole name as the file
pathSplit_WholeName(name) ==
    [dir |-> SubSeq(name, 1, LastIndex(name, Slash)), file |-> name]

\* path.Split: the name up to its last "/", and what follows
pathSplit(name) ==
    [dir |-> SubSeq(name, 1, LastIndex(name, Slash)),
     file |-> SubSeq(name, LastIndex(name, Slash) + 1, Len(name))]

NewCredentialsBundle == [Files |-> EmptyFiles, Err |-> nil]

\* creds.Files[fname] = b, had it kept the bytes of a key already there
Stored_KeepsFirst(c, fname, b) ==
    [c EXCEPT !.Files = [n \in DOMAIN c.Files \cup {fname} |->
                            IF n \in DOMAIN c.Files THEN c.Files[n] ELSE b]]

\* creds.Files[fname] = b
Stored(c, fname, b) ==
    [c EXCEPT !.Files = [n \in DOMAIN c.Files \cup {fname} |->
                            IF n = fname THEN b ELSE c.Files[n]]]

\* the loop of GetCredentials, had it skipped the entries it cannot read
RECURSIVE ReadEntries_SkipsFailed(_, _, _)
ReadEntries_SkipsFailed(files, i, c) ==
    IF i > Len(files) THEN [creds |-> c, err |-> nil]
    ELSE IF IsDir(files[i]) \/ files[i].fails # ""
    THEN ReadEntries_SkipsFailed(files, i + 1, c)
    ELSE ReadEntries_SkipsFailed(files, i + 1,
             Stored(c, pathSplit(files[i].Name).file, files[i].Content))

\* the loop of GetCredentials over zr.File from entry i on: [creds, err]
RECURSIVE ReadEntries(_, _, _)
ReadEntries(files, i, c) ==
    IF i > Len(files) THEN [creds |-> c, err |-> nil]
    ELSE IF IsDir(files[i]) THEN ReadEntries(files, i + 1, c)
    ELSE IF files[i].fails = "Open"
    THEN [creds |-> c, err |-> ErrOpen(files[i].Name)]
    ELSE IF files[i].fails = "ReadAll"
    THEN [creds |-> c, err |-> ErrReadAll(files[i].Name)]
    ELSE ReadEntries(files, i + 1,
             Stored(c, pathSplit(files[i].Name).file, files[i].Content))

\* the statement appendClusterName adds to a script, by the name of the file
Stmt(fileName, name) ==
    CASE fileName \in {<<"docker.env">>, <<"kubectl.env">>} ->
            <<"export CARINA_CLUSTER_NAME=">> \o name \o <<"\n">>
      [] fileName \in {<<"docker.fish">>, <<"kubectl.fish">>} ->
            <<"set -x CARINA_CLUSTER_NAME ">> \o name \o <<"\n">>
      [] fileName \in {<<"docker.ps1">>, <<"kubectl.ps1">>} ->
            <<"$env:CARINA_CLUSTER_NAME=\"">> \o name \o <<"\"", "\n">>
      [] fileName \in {<<"docker.cmd">>, <<"kubectl.cmd">>} ->
            <<"set CARINA_CLUSTER_NAME=">> \o name \o <<"\n">>
      [] OTHER -> <<>>

\* appendClusterName, had it added the statement of docker.env to every file
appendClusterName_AllFiles(name, c) ==
    [c EXCEPT !.Files = [n \in DOMAIN c.Files |->
                            c.Files[n] \o Stmt(<<"docker.env">>, name)]]

appendClusterName(name, c) ==
    [c EXCEPT !.Files = [n \in DOMAIN c.Files |-> c.Files[n] \o Stmt(n, name)]]

\* GetCredentials once the entries are read
Bundled(name, reqs, b) ==
    IF b.err # nil THEN Return(NilResult, b.err, reqs)
    ELSE Return(Some(appendClusterName(name, b.creds)), nil, reqs)

\* GetCredentials once the archive is fetched
GetCredentialsFrom(name, reqs, zr) ==
    IF zr.err # nil THEN Return(NilResult, zr.err, reqs \o zr.reqs)
    ELSE Bundled(name, reqs \o zr.reqs,
                 ReadEntries(zr.result.val, 1, NewCredentialsBundle))

\* GetCredentials once the id is looked up
GetCredentialsOf(a, id, name) ==
    IF name.err # nil THEN Return(NilResult, name.err, id.reqs \o name.reqs)
    ELSE GetCredentialsFrom(name.result, id.reqs \o name.reqs,
             fetchZip(a, CarinaEndpoint \o ClusterURI(id.result)
                            \o <<"/", "credentials", "/", "zip">>))

GetCredentialsFor(a, token, id) ==
    IF id.err # nil THEN Return(NilResult, id.err, id.reqs)
    ELSE GetCredentialsOf(a, id, lookupClusterName(a, token))

\* CarinaClient.GetCredentials
GetCredentials(a, token) ==
    GetCredentialsFor(a, token, lookupClusterID(a, token))

(***************************************************************************)
(* NewClient.  The identity service answers the verification of a token     *)
(* with a status (0: no answer), and the authentication by API key with a   *)
(* token or an error.                                                       *)
(***************************************************************************)
\* rackspace.RackspaceUSIdentity+"tokens/"
IdentityTokens == <<"https://identity.api.rackspacecloud.com/v2.0/", "tokens", "/">>

ErrCachedToken == Error("Cached token is invalid", <<>>)
ErrAuthentication == Error("rackspace.AuthenticatedClient", <<>>)

\* what rackspace.AuthenticatedClient returns: provider.TokenID, or an error
Provider(ok, tokenID) == [ok |-> ok, TokenID |-> tokenID]

\* the closure verifyToken of NewClient, by the status of the answer
verifyToken(status) ==
    IF status = 0 THEN ErrTransport
    ELSE IF status # 200 THEN ErrCachedToken
    ELSE nil

\* &CarinaClient{Token: token, Endpoint: endpoint, ...}
CarinaClient(token) == [Token |-> token, Endpoint |-> CarinaEndpoint]

\* the requests of NewClient: the verification of a token that is not empty
VerifyRequest(token, status) ==
    IF token = <<>> THEN <<>>
    ELSE <<Request("HEAD", IdentityTokens \o token, status)>>
AuthRequest(provider) ==
    <<Request("POST", IdentityTokens, IF provider.ok THEN 200 ELSE 401)>>

\* NewClient, had it authenticated by API key whatever the token
NewClient_AlwaysAuthenticates(token, status, provider) ==
    IF ~provider.ok
    THEN Return(NilResult, ErrAuthentication,
                VerifyRequest(token, status) \o AuthRequest(provider))
    ELSE Return(Some(CarinaClient(provider.TokenID)), nil,
                VerifyRequest(token, status) \o AuthRequest(provider))

\* NewClient, status being the answer to the verification of the token and
\* provider the outcome of the authentication by API key
NewClient(token, status, provider) ==
    IF token = <<>> \/ verifyToken(status) # nil
    THEN IF ~provider.ok
         THEN Return(NilResult, ErrAuthentication,
                     VerifyRequest(token, status) \o AuthRequest(provider))
         ELSE Return(Some(CarinaClient(provider.TokenID)), nil,
                     VerifyRequest(token, status) \o AuthRequest(provider))
    ELSE Return(Some(CarinaClient(token)), nil, VerifyRequest(token, status))

\* the tokens and the answers of the model
CachedToken == <<"c">>
IssuedToken == <<"n">>
VerifyStatuses == {0, 200, 401, 404}
Providers == {Provider(TRUE, IssuedToken), Provider(FALSE, <<>>)}

(***************************************************************************)
(* The ClusterClient revision of the library: the API answers the request   *)
(* for the URL of the archive (the route "item" of the server), and the     *)
(* archive is fetched from that URL (the route "zip").                      *)
(***************************************************************************)
Username == <<"u">>
TempURL == <<"https://storage.example", "/", "zip">>

\* a panic: the call does not return
ErrNilDereference == Error("panic: nil pointer dereference", <<>>)
ErrSliceBounds == Error("panic: slice bounds out of range", <<>>)
\* errors.New(string(b)), of the body of an answer with the status
ErrBody(status) == Error("errors.New", <<status>>)

ClusterClient_Do(a, url) ==
    IF HasPrefix(url, CarinaEndpoint) THEN a["item"] ELSE a["zip"]

\* ClusterClient.NewRequest: the HTTPErr carries the uri
ClusterClient_NewRequest(a, method, uri) ==
    LET url == CarinaEndpoint \o uri
        resp == ClusterClient_Do(a, url)
    IN  IF ~resp.sent
        THEN Return(NilResult, ErrTransport, <<Request(method, url, 0)>>)
        ELSE IF resp.StatusCode >= 300
        THEN Return(NilResult, HTTPErr(method, uri, resp.StatusCode),
                    <<Request(method, url, resp.StatusCode)>>)
        ELSE Return(Some(resp), nil, <<Request(method, url, resp.StatusCode)>>)

\* ClusterClient.GetZipURL: the URL of the decoded ZipURLResponse
ClusterClient_GetZipURL(a, clusterName) ==
    LET r == ClusterClient_NewRequest(a, "GET",
                 <<"/", "clusters", "/">> \o Username \o <<"/">>
                     \o clusterName \o <<"/", "zip">>)
    IN  IF r.err # nil THEN Return(NilResult, r.err, r.reqs)
        ELSE IF ~r.result.val.Body.valid THEN Return(NilResult, ErrJSON, r.reqs)
        ELSE Return(Some(TempURL), nil, r.reqs)

\* fetchZip of the revision: the entries of the archive
ClusterClient_fetchZip(a, zipurl) ==
    LET resp == ClusterClient_Do(a, zipurl)
    IN  IF ~resp.sent
        THEN Return(NilResult, ErrTransport, <<Request("GET", zipurl, 0)>>)
        ELSE IF resp.StatusCode >= 400
        THEN Return(NilResult, ErrBody(resp.StatusCode),
                    <<Request("GET", zipurl, resp.StatusCode)>>)
        ELSE IF ~resp.Body.valid
        THEN Return(NilResult, ErrZip, <<Request("GET", zipurl, resp.StatusCode)>>)
        ELSE Return(Some(resp.Body.value), nil,
                    <<Request("GET", zipurl, resp.StatusCode)>>)

\* the Credentials of the revision: the bytes of each file by its name (the
\* fields CA, Cert, Key, DockerEnv, ... of the switch on fname), and
\* DockerHost
Credentials(files, dockerHost) ==
    [Files |-> [n \in {k[1] : k \in DOMAIN files} |-> files[<<n>>]],
     DockerHost |-> dockerHost]

\* the loop over the lines of docker.env from line i on: [host, panics];
\* varDecl[:eqLocation] panics when the line has no "="
Export == <<"e","x","p","o","r","t"," ">>
RECURSIVE DockerHostOf(_, _, _)
DockerHostOf(sourceLines, i, host) ==
    IF i > Len(sourceLines) THEN [host |-> host, panics |-> FALSE]
    ELSE IF ~HasPrefix(sourceLines[i], Export)
    THEN DockerHostOf(sourceLines, i + 1, host)
    ELSE LET varDecl == SubSeq(sourceLines[i], Len(Export) + 1, Len(sourceLines[i]))
             eqLocation == Index(varDecl, <<"=">>)
         IN  IF eqLocation = 0 THEN [host |-> host, panics |-> TRUE]
             ELSE IF SubSeq(varDecl, 1, eqLocation) = DOCKER_HOST
             THEN DockerHostOf(sourceLines, i + 1,
                               SubSeq(varDecl, eqLocation + 1, Len(varDecl)))
             ELSE DockerHostOf(sourceLines, i + 1, host)

\* ClusterClient.GetCredentials once the entries are read
ClusterClient_Parsed(reqs, files, h) ==
    IF h.panics THEN Return(NilResult, ErrSliceBounds, reqs)
    ELSE Return(Some(Credentials(files, h.host)), nil, reqs)

ClusterClient_Read(reqs, b) ==
    IF b.err # nil THEN Return(NilResult, b.err, reqs)
    ELSE ClusterClient_Parsed(reqs, b.creds.Files,
             DockerHostOf(Split(Lookup(b.creds.Files, <<DockerEnv>>), <<"\n">>),
                          1, <<>>))

\* ClusterClient.GetCredentials once the archive is fetched:
\* if err != nil || len(zr.File) < 6 { return nil, err }
ClusterClient_Fetched(reqs, zr) ==
    IF zr.err # nil \/ Len(zr.result.val) < 6
    THEN Return(NilResult, zr.err, reqs \o zr.reqs)
    ELSE ClusterClient_Read(reqs \o zr.reqs,
                            ReadEntries(zr.result.val, 1, NewCredentialsBundle))

ClusterClient_WithURL(a, url) ==
    IF url.err # nil THEN Return(NilResult, url.err, url.reqs)
    ELSE ClusterClient_Fetched(url.reqs, ClusterClient_fetchZip(a, url.result.val))

\* ClusterClient.GetCredentials
ClusterClient_GetCredentials(a, clusterName) ==
    ClusterClient_WithURL(a, ClusterClient_GetZipURL(a, clusterName))

\* ClusterClient.GetDockerConfig once GetCredentials has returned:
\* creds.GetTLSConfig() reads creds.CA, and panics when creds is nil
ClusterClient_WithCredentials(c, t) ==
    Return(Some([hostname |-> c.result.val.DockerHost, tlsConfig |-> t.tls]),
           t.err, c.reqs)

ClusterClient_Configured(c) ==
    IF c.err # nil THEN Return(NilResult, c.err, c.reqs)
    ELSE IF c.result.isNil THEN Return(NilResult, ErrNilDereference, c.reqs)
    ELSE ClusterClient_WithCredentials(c, GetTLSConfig(c.result.val))

\* ClusterClient.GetDockerConfig
ClusterClient_GetDockerConfig(a, clusterName) ==
    ClusterClient_Configured(ClusterClient_GetCredentials(a, clusterName))

(***************************************************************************)
(* The command-line tool rcs-cli.  The process ends with an exit code, what *)
(* it has printed of errors, and the requests it has sent; the call of the  *)
(* API behind a command is given by the error it returns.                   *)
(***************************************************************************)
ErrNotRecognized(command) == Error("command not recognized", <<command>>)

\* flag.Arg(i): "" when there is no such argument
Arg(args, i) == IF i < Len(args) THEN args[i + 1] ELSE ""

\* os.Exit(code) after the errors printed by simpleErr and the requests sent
Exit(code, printed, reqs) ==
    Return(Some([exitCode |-> code, printed |-> printed]), nil, reqs)

\* the request of the call of the API behind a command
CommandRequest(command, apiErr) ==
    <<Request("API", <<command>>, IF apiErr = nil THEN 200 ELSE 500)>>

\* the err of main after the switch on the command: "list" assigns to it,
\* the other commands declare an err of their own with := in the scope of
\* their case, and an unknown command assigns the error to it
ErrAfterSwitch(command, err, apiErr) ==
    CASE command = "list" -> apiErr
      [] command \in {"get", "delete", "create", "credentials", "docker-info"} -> err
      [] OTHER -> ErrNotRecognized(command)

\* main from the err of the switch on
Finish(err, reqs) ==
    IF err # nil THEN Exit(4, <<err>>, reqs) ELSE Exit(0, <<>>, reqs)

\* the commands that call the API
Commands == {"list", "get", "delete", "create", "credentials", "docker-info"}

\* main from NewClusterClient on
Run(command, provider, apiErr) ==
    IF ~provider.ok THEN Exit(3, <<ErrAuthentication>>, AuthRequest(provider))
    ELSE Finish(ErrAfterSwitch(command, nil, apiErr),
                AuthRequest(provider) \o
                    (IF command \in Commands THEN CommandRequest(command, apiErr)
                     ELSE <<>>))

\* main of rcs-cli: hasCredentials says that the user name and the password
\* are set, by the flags or by the environment
main(hasCredentials, args, provider, apiErr) ==
    IF ~hasCredentials THEN Exit(1, <<>>, <<>>)
    ELSE IF Len(args) < 1 \/ (Arg(args, 0) # "list" /\ Len(args) < 2)
    THEN Exit(2, <<>>, <<>>)
    ELSE Run(Arg(args, 0), provider, apiErr)

\* the command lines and the errors of the API of the model
CommandLines ==
    { <<>>, <<"list">>, <<"get">>, <<"frob">> }
    \cup { <<c, "a">> : c \in (Commands \ {"list"}) \cup {"frob"} }
APIErrors == {nil, HTTPErr("API", <<"/", "clusters">>, 500)}

(***************************************************************************)
(* The API metadata (SupportedAPIVersion, IsSupportedVersion and            *)
(* GetSupportedVersionRange), with the versions of Masterminds/semver: a    *)
(* version string is a sequence of characters, one to three numbers between *)
(* dots after an optional "v" (no pre-release, no build metadata).          *)
(***************************************************************************)
SupportedAPIVersion == <<"1", ".", "0">>

DigitChars == <<"0","1","2","3","4","5","6","7","8","9">>
DigitValue(c) == (CHOOSE d \in 1..10 : DigitChars[d] = c) - 1

\* the number a non-empty sequence of digits reads as
RECURSIVE Atoi(_)
Atoi(s) ==
    IF Len(s) = 1 THEN DigitValue(s[1])
    ELSE 10 * Atoi(SubSeq(s, 1, Len(s) - 1)) + DigitValue(s[Len(s)])

\* the verb %d of fmt.Sprintf
RECURSIVE Itoa(_)
Itoa(n) ==
    IF n < 10 THEN <<DigitChars[n + 1]>>
    ELSE Itoa(n \div 10) \o <<DigitChars[(n % 10) + 1]>>

IsNumber(s) == s # <<>> /\ \A i \in 1..Len(s) : s[i] \in Digits

\* a *semver.Version, nil when ok is FALSE
Version(major, minor, patch) ==
    [ok |-> TRUE, major |-> major, minor |-> minor, patch |-> patch]
NilVersion == [ok |-> FALSE, major |-> 0, minor |-> 0, patch |-> 0]

\* semver.NewVersion of the numbers between the dots
VersionOfSegments(segs) ==
    IF Len(segs) > 3 \/ \E i \in 1..Len(segs) : ~IsNumber(segs[i])
    THEN NilVersion
    ELSE Version(Atoi(segs[1]),
                 IF Len(segs) >= 2 THEN Atoi(segs[2]) ELSE 0,
                 IF Len(segs) >= 3 THEN Atoi(segs[3]) ELSE 0)

\* semver.NewVersion: the version, or nil and an error
NewVersion(s) ==
    VersionOfSegments(Split(IF HasPrefix(s, <<"v">>) THEN Tail(s) ELSE s, <<".">>))

\* Version.Compare: -1, 0 or 1
Compare(v, o) ==
    CASE v.major # o.major -> IF v.major < o.major THEN -1 ELSE 1
      [] v.minor # o.minor -> IF v.minor < o.minor THEN -1 ELSE 1
      [] v.patch # o.patch -> IF v.patch < o.patch THEN -1 ELSE 1
      [] OTHER -> 0

\* Constraints.Check of ">= min, <= max", had the bounds been exclusive
Check_Exclusive(min, max, v) == Compare(v, min) > 0 /\ Compare(v, max) < 0

\* Constraints.Check of the constraint ">= min, <= max"
Check(min, max, v) == Compare(v, min) >= 0 /\ Compare(v, max) <= 0

\* the loop of IsSupportedVersion over the versions from entry i on;
\* semver.NewConstraint fails when a bound is no version
RECURSIVE SupportedFrom(_, _, _)
SupportedFrom(versions, i, supportedVersion) ==
    IF i > Len(versions) THEN FALSE
    ELSE IF ~NewVersion(versions[i].Minimum).ok \/ ~NewVersion(versions[i].Maximum).ok
    THEN SupportedFrom(versions, i + 1, supportedVersion)
    ELSE IF Check(NewVersion(versions[i].Minimum), NewVersion(versions[i].Maximum),
                  supportedVersion)
    THEN TRUE
    ELSE SupportedFrom(versions, i + 1, supportedVersion)

\* APIMetadata.IsSupportedVersion
IsSupportedVersion(metadata) ==
    SupportedFrom(metadata.Versions, 1, NewVersion(SupportedAPIVersion))

\* the bounds, from entry i on, of the entries of which both bounds are
\* versions
RECURSIVE ParsedBounds(_, _)
ParsedBounds(versions, i) ==
    IF i > Len(versions) THEN <<>>
    ELSE IF ~NewVersion(versions[i].Minimum).ok \/ ~NewVersion(versions[i].Maximum).ok
    THEN ParsedBounds(versions, i + 1)
    ELSE <<NewVersion(versions[i].Minimum), NewVersion(versions[i].Maximum)>>
         \o ParsedBounds(versions, i + 1)

\* the first loop of GetSupportedVersionRange from entry i on: the versions
\* appended.  err is that of the Minimum at both tests, so that a Maximum
\* that is no version is appended as nil
RECURSIVE Collected(_, _)
Collected(versions, i) ==
    IF i > Len(versions) THEN <<>>
    ELSE IF ~NewVersion(versions[i].Minimum).ok
    THEN Collected(versions, i + 1)
    ELSE <<NewVersion(versions[i].Minimum), NewVersion(versions[i].Maximum)>>
         \o Collected(versions, i + 1)

\* versions[0] and versions[numVersions-1] after sort.Sort
Lowest(vs) ==
    vs[CHOOSE i \in 1..Len(vs) : \A j \in 1..Len(vs) : Compare(vs[i], vs[j]) <= 0]
Highest(vs) ==
    vs[CHOOSE i \in 1..Len(vs) : \A j \in 1..Len(vs) : Compare(vs[i], vs[j]) >= 0]

\* fmt.Sprintf("%d.%d", v.Major(), v.Minor())
MajorMinor(v) == Itoa(v.major) \o <<".">> \o Itoa(v.minor)

\* what GetSupportedVersionRange does: it returns min and max, or panics
Range(min, max) == [min |-> min, max |-> max, panics |-> FALSE]
Panic == [min |-> <<>>, max |-> <<>>, panics |-> TRUE]

\* GetSupportedVersionRange, had it taken the first and the last version
\* without sorting
RangeOf_Unsorted(vs) ==
    IF \E i \in 1..Len(vs) : ~vs[i].ok THEN Panic
    ELSE IF Len(vs) < 2 THEN Range(<<"0">>, <<"0">>)
    ELSE Range(MajorMinor(vs[1]), MajorMinor(vs[Len(vs)]))

\* GetSupportedVersionRange once the versions are collected: sort.Sort
\* compares every version with another, and the comparison of a nil version
\* dereferences it
RangeOf(vs) ==
    IF \E i \in 1..Len(vs) : ~vs[i].ok THEN Panic
    ELSE IF Len(vs) < 2 THEN Range(<<"0">>, <<"0">>)
    ELSE Range(MajorMinor(Lowest(vs)), MajorMinor(Highest(vs)))

\* APIMetadata.GetSupportedVersionRange
GetSupportedVersionRange(metadata) == RangeOf(Collected(metadata.Versions, 1))

\* json.Decoder.Decode(&metadata): a body without versions leaves none
APIMetadata(versions) == [Versions |-> versions]
MetadataOf(value) ==
    IF DOMAIN value = {} THEN APIMetadata(<<>>) ELSE value

(***************************************************************************)
(* The servers of the model.                                                *)
(***************************************************************************)
\* the cluster id of the tests
ID1 == <<"9","f","1","8","f","7","f","9","-","a","e","b","4","-",
         "4","c","7","c","-","9","1","e","f","-",
         "e","1","3","f","f","9","4","e","3","5","2","c">>
Cluster1 == [ID |-> ID1, Name |-> <<"a">>]

\* what the calls are given: the id of the cluster, its name, its name in
\* upper case, another name
Tokens == {ID1, <<"a">>, <<"A">>, <<"z">>}

\* the entries an archive is made of
ZipEntries ==
    { ZipFile(<<"u", "/">>, FALSE, <<>>, ""),
      ZipFile(<<"v">>, TRUE, <<>>, ""),
      ZipFile(<<"ca.pem">>, FALSE, CAOf("1"), ""),
      ZipFile(<<"u", "/", "ca.pem">>, FALSE, CAOf("2"), ""),
      ZipFile(<<"u", "/", "docker.env">>, FALSE,
              DOCKER_HOST \o Tcp \o <<"h",":","1","\n">>, ""),
      ZipFile(<<"docker.ps1">>, FALSE, <<"$env:DOCKER_HOST=\"h:1\"", "\n">>, ""),
      ZipFile(<<"cert.pem">>, FALSE, CertOf("1"), "Open"),
      ZipFile(<<"u", "/", "key.pem">>, FALSE, KeyOf("1"), "ReadAll") }

\* the archives of at most MaxEntries entries
Zips == SeqsUpTo(ZipEntries, MaxEntries)

\* an advertised version, and the one the library supports
APIVersion(min, max) == [Minimum |-> min, Maximum |-> max]
Supported == APIVersion(SupportedAPIVersion, SupportedAPIVersion)

\* a server that answers every request with 200 and a body that decodes
GoodZip == << ZipFile(<<"ca.pem">>, FALSE, CAOf("1"), "") >>
GoodAPI ==
    [r \in Routes |->
        Answer(TRUE, 200,
               Body(TRUE, CASE r = "list" -> <<Cluster1>>
                            [] r \in {"item", "create"} -> Cluster1
                            [] r = "zip" -> GoodZip
                            [] r = "meta" -> APIMetadata(<<Supported>>)
                            [] OTHER -> <<r>>))]

\* an answer with each status, one with a body that does not decode, and
\* no answer
Statuses == {399, 400, 406, 500}
Deviations ==
    {Answer(TRUE, s, Body(TRUE, <<>>)) : s \in Statuses}
    \cup {Answer(TRUE, 200, Body(FALSE, <<>>)), Answer(FALSE, 0, Body(FALSE, <<>>))}

\* the servers that deviate on one route, or on all
StatusAPIs ==
    {GoodAPI} \cup
    { [r \in Routes |-> IF r \in R THEN dev ELSE GoodAPI[r]] :
      R \in {{r} : r \in Routes} \cup {Routes}, dev \in Deviations }

\* the archive of a cluster, of six entries, and the same with an entry that
\* cannot be opened
FullZip ==
    << ZipFile(<<"ca.pem">>, FALSE, CAOf("1"), ""),
       ZipFile(<<"README.md">>, FALSE, <<"#">>, ""),
       ZipFile(<<"ca-key.pem">>, FALSE, KeyOf("2"), ""),
       ZipFile(<<"docker.env">>, FALSE,
               Export \o DOCKER_HOST \o Tcp \o <<"h",":","1","\n">>, ""),
       ZipFile(<<"cert.pem">>, FALSE, CertOf("1"), ""),
       ZipFile(<<"key.pem">>, FALSE, KeyOf("1"), "") >>
ClusterZips ==
    { FullZip,
      [FullZip EXCEPT ![5] = ZipFile(<<"cert.pem">>, FALSE, CertOf("1"), "Open")],
      [FullZip EXCEPT ![4] = ZipFile(<<"docker.env">>, FALSE,
                                     Export \o <<"D","\n">>, "")] }

\* the servers that answer with each archive
ZipAPIs ==
    { [GoodAPI EXCEPT !["zip"] = Answer(TRUE, 200, Body(TRUE, z))] :
      z \in Zips \cup ClusterZips }

\* the names the calls of the ClusterClient are given
ClusterNames == {<<"a">>, <<"z">>}

\* another cluster id, and the lists of clusters of a server: none, one,
\* two of the same name, two whose names differ by case, two of other names
ID2 == [ID1 EXCEPT ![1] = "8"]
Cluster(id, name) == [ID |-> id, Name |-> name]
ClusterLists ==
    { <<>>, <<Cluster1>>,
      <<Cluster1, Cluster(ID2, <<"a">>)>>,
      <<Cluster(ID2, <<"A">>), Cluster1>>,
      <<Cluster(ID2, <<"z">>), Cluster1>>,
      <<Cluster(ID2, <<"b">>)>> }

\* the servers that answer with each list of clusters
ListAPIs ==
    { [GoodAPI EXCEPT !["list"] = Answer(TRUE, 200, Body(TRUE, l))] :
      l \in ClusterLists }

\* the versions a server advertises: those of the tests, one whose bounds
\* are inverted, and two with a bound that is no version
V05 == <<"0", ".", "5">>
V09 == <<"0", ".", "9">>
V15 == <<"1", ".", "5">>
V20 == <<"2", ".", "0">>
NoVersion == <<"b", "e", "t", "a">>
VersionEntries ==
    { Supported, APIVersion(V09, V20), APIVersion(V20, V20), APIVersion(V09, V09),
      APIVersion(SupportedAPIVersion, V15), APIVersion(V05, V09),
      APIVersion(V20, V05),
      APIVersion(NoVersion, SupportedAPIVersion),
      APIVersion(SupportedAPIVersion, NoVersion) }

\* the servers that advertise at most MaxVersions versions
MetaAPIs ==
    { [GoodAPI EXCEPT !["meta"] = Answer(TRUE, 200, Body(TRUE, APIMetadata(vs)))] :
      vs \in SeqsUpTo(VersionEntries, MaxVersions) }

APIs == StatusAPIs \cup ZipAPIs \cup MetaAPIs \cup ListAPIs

\* no server, and no directory
NoAPI == [r \in Routes |-> Answer(FALSE, 0, Body(FALSE, <<>>))]
NoDir == [listable |-> FALSE, unreadable |-> {}, subdirs |-> {},
          files |-> EmptyFiles]

\* the requests NewRequest is called with
Methods == {"GET", "POST", "DELETE"}
URIs == {<<"/">>, <<"/", "clusters">>, <<"/", "cluster_types">>, ClusterURI(ID1)}

(***************************************************************************)
(* The state machine: a directory on disk, the bundle loaded from it and    *)
(* the result of the last call on it; or a server, and the result of the    *)
(* last call of the client.                                                 *)
(***************************************************************************)
Result(op, host, err, tls, dialed, open) ==
    [op |-> op, host |-> host, err |-> err, tls |-> tls,
     dialed |-> dialed, open |-> open, bytes |-> <<>>]

\* the result of GetCA, GetCert and GetKey
Bytes(op, bytes) ==
    [Result(op, <<>>, nil, NoConfig, <<>>, 0) EXCEPT !.bytes = bytes]

\* the last call of the client: the operation, what it was given, and what
\* it returned
Call(op, arg, r) ==
    [op |-> op, arg |-> arg, result |-> r.result, err |-> r.err, reqs |-> r.reqs]
NoCall == Call("none", <<>>, Return(NilResult, nil, <<>>))

Init ==
    /\ \/ disk \in Dirs /\ api = NoAPI /\ pc = "new"
       \/ disk = NoDir /\ api \in APIs /\ pc = "client"
       \/ disk = NoDir /\ api = NoAPI /\ pc = "start"
    /\ creds = ZeroBundle
    /\ ret = Result("none", <<>>, nil, NoConfig, <<>>, 0)
    /\ out = NoCall

Load ==
    /\ pc = "new"
    /\ creds' = LoadCredentialsBundle(disk)
    /\ pc' = "loaded"
    /\ ret' = Result("LoadCredentialsBundle", <<>>, nil, NoConfig, <<>>, 0)
    /\ UNCHANGED <<disk, api, out>>

\* ParseHost, had it reset Err
CallParseHost_ClearsErr ==
    /\ pc = "loaded"
    /\ LET r == ParseHost(creds)
       IN  ret' = Result("ParseHost", r.host, r.err, NoConfig, <<>>, 0)
    /\ creds' = [creds EXCEPT !.Err = nil]
    /\ UNCHANGED <<disk, pc, api, out>>

CallParseHost ==
    /\ pc = "loaded"
    /\ LET r == ParseHost(creds)
       IN  ret' = Result("ParseHost", r.host, r.err, NoConfig, <<>>, 0)
    /\ UNCHANGED <<disk, creds, pc, api, out>>

CallGetTLSConfig ==
    /\ pc = "loaded"
    /\ LET r == GetTLSConfig(creds)
       IN  ret' = Result("GetTLSConfig", <<>>, r.err, r.tls, <<>>, 0)
    /\ UNCHANGED <<disk, creds, pc, api, out>>

CallVerify ==
    /\ pc = "loaded"
    /\ \E dialOK \in BOOLEAN :
          LET r == Verify(creds, dialOK)
          IN  ret' = Result("Verify", <<>>, r.err, NoConfig, r.dialed, r.open)
    /\ UNCHANGED <<disk, creds, pc, api, out>>

CallGetCA ==
    /\ pc = "loaded"
    /\ ret' = Bytes("GetCA", GetCA(creds))
    /\ UNCHANGED <<disk, creds, pc, api, out>>

CallGetCert ==
    /\ pc = "loaded"
    /\ ret' = Bytes("GetCert", GetCert(creds))
    /\ UNCHANGED <<disk, creds, pc, api, out>>

CallGetKey ==
    /\ pc = "loaded"
    /\ ret' = Bytes("GetKey", GetKey(creds))
    /\ UNCHANGED <<disk, creds, pc, api, out>>

CallNewClient ==
    /\ pc = "start"
    /\ \E token \in {<<>>, CachedToken}, status \in VerifyStatuses,
          provider \in Providers :
          out' = Call("NewClient", token, NewClient(token, status, provider))
    /\ UNCHANGED <<disk, creds, pc, ret, api>>

CallMain ==
    /\ pc = "start"
    /\ \E hasCredentials \in BOOLEAN, args \in CommandLines,
          provider \in Providers, apiErr \in APIErrors :
          out' = Call("main", <<hasCredentials, args, apiErr>>,
                      main(hasCredentials, args, provider, apiErr))
    /\ UNCHANGED <<disk, creds, pc, ret, api>>

CallNewRequest ==
    /\ pc = "client"
    /\ \E method \in Methods, uri \in URIs :
          out' = Call("NewRequest", <<method, uri>>, NewRequest(api, method, uri))
    /\ UNCHANGED <<disk, creds, pc, ret, api>>

CallList ==
    /\ pc = "client"
    /\ out' = Call("List", <<>>, List(api))
    /\ UNCHANGED <<disk, creds, pc, ret, api>>

CallListClusterTypes ==
    /\ pc = "client"
    /\ out' = Call("ListClusterTypes", <<>>, ListClusterTypes(api))
    /\ UNCHANGED <<disk, creds, pc, ret, api>>

CallGet ==
    /\ pc = "client"
    /\ \E token \in Tokens : out' = Call("Get", token, Get(api, token))
    /\ UNCHANGED <<disk, creds, pc, ret, api>>

CallCreate ==
    /\ pc = "client"
    /\ out' = Call("Create", <<>>, Create(api))
    /\ UNCHANGED <<disk, creds, pc, ret, api>>

CallDelete ==
    /\ pc = "client"
    /\ \E token \in Tokens : out' = Call("Delete", token, Delete(api, token))
    /\ UNCHANGED <<disk, creds, pc, ret, api>>

CallGetCredentials ==
    /\ pc = "client"
    /\ \E token \in Tokens :
          out' = Call("GetCredentials", token, GetCredentials(api, token))
    /\ UNCHANGED <<disk, creds, pc, ret, api>>

CallClusterGetCredentials ==
    /\ pc = "client"
    /\ \E clusterName \in ClusterNames :
          out' = Call("ClusterClient.GetCredentials", clusterName,
                      ClusterClient_GetCredentials(api, clusterName))
    /\ UNCHANGED <<disk, creds, pc, ret, api>>

CallGetDockerConfig ==
    /\ pc = "client"
    /\ \E clusterName \in ClusterNames :
          out' = Call("ClusterClient.GetDockerConfig", clusterName,
                      ClusterClient_GetDockerConfig(api, clusterName))
    /\ UNCHANGED <<disk, creds, pc, ret, api>>

CallGetAPIMetadata ==
    /\ pc = "client"
    /\ out' = Call("GetAPIMetadata", <<>>, GetAPIMetadata(api))
    /\ UNCHANGED <<disk, creds, pc, ret, api>>

\* a call on the metadata the last call returned
MetadataCall(op, metadata, value) ==
    Call(op, metadata, Return(Some(value), nil, <<>>))

CallIsSupportedVersion ==
    /\ pc = "client"
    /\ out.op = "GetAPIMetadata" /\ ~out.result.isNil
    /\ out' = MetadataCall("IsSupportedVersion", MetadataOf(out.result.val),
                           IsSupportedVersion(MetadataOf(out.result.val)))
    /\ UNCHANGED <<disk, creds, pc, ret, api>>

CallGetSupportedVersionRange ==
    /\ pc = "client"
    /\ out.op = "GetAPIMetadata" /\ ~out.result.isNil
    /\ out' = MetadataCall("GetSupportedVersionRange", MetadataOf(out.result.val),
                           GetSupportedVersionRange(MetadataOf(out.result.val)))
    /\ UNCHANGED <<disk, creds, pc, ret, api>>

Next ==
    \/ Load \/ CallParseHost \/ CallGetTLSConfig \/ CallVerify
    \/ CallGetCA \/ CallGetCert \/ CallGetKey
    \/ CallNewRequest \/ CallList \/ CallListClusterTypes \/ CallGet
    \/ CallCreate \/ CallDelete \/ CallGetCredentials \/ CallGetAPIMetadata
    \/ CallIsSupportedVersion \/ CallGetSupportedVersionRange
    \/ CallNewClient \/ CallMain
    \/ CallClusterGetCredentials \/ CallGetDockerConfig

Spec == Init /\ [][Next]_vars

(***************************************************************************)
(* What the properties speak of: the file ParseHost selects, its token, its *)
(* lines, and the lines that match.                                         *)
(***************************************************************************)
HasEndpointFile(c) == Has(c.Files, DockerEnv) \/ Has(c.Files, KubectlConfig)
SelectedName(c) == IF Has(c.Files, DockerEnv) THEN DockerEnv ELSE KubectlConfig
SelectedToken(c) == IF Has(c.Files, DockerEnv) THEN DOCKER_HOST ELSE SERVER
SelectedLines(c) == Split(c.Files[SelectedName(c)], <<"\n">>)

\* how many times the token occurs in a line
Occurrences(line, token) == Len(Split(line, token)) - 1
\* the text of a line after the first occurrence of the token
After(line, token) ==
    SubSeq(line, Index(line, token) + Len(token), Len(line))

\* the lines the split breaks into exactly two segments (spec 4.2)
OnceLines(lines, token) == {i \in 1..Len(lines) : Occurrences(lines[i], token) = 1}
Least(S) == CHOOSE i \in S : \A j \in S : i <= j

\* the bundle with the selected file replaced by the given lines
WithSelectedLines(c, lines) ==
    [c EXCEPT !.Files[SelectedName(c)] = Join(lines)]

ParseHostCalled == pc = "loaded" /\ ret.op = "ParseHost"
TokenNotFound(c) == IF Has(c.Files, DockerEnv) THEN ErrNoDockerHost ELSE ErrNoServer

\* C1: a bundle whose Err is set returns that Err from ParseHost,
\* GetTLSConfig and Verify.
C1_DeferredErrReturned ==
    (pc = "loaded" /\ creds.Err # nil
        /\ ret.op \in {"ParseHost", "GetTLSConfig", "Verify"})
    => ret.err = creds.Err

\* C2: when docker.env is a key of Files, ParseHost reads docker.env alone:
\* its result is that of the bundle without kubectl.config, and it is the
\* DOCKER_HOST error when docker.env holds no DOCKER_HOST=; kubectl.config
\* and server: decide only when docker.env is absent.
C2_DockerEnvFirst ==
    ParseHostCalled =>
        /\ Has(creds.Files, DockerEnv) =>
              LET alone == [creds EXCEPT !.Files =
                               [n \in {DockerEnv} |-> creds.Files[n]]]
              IN  /\ ret.host = ParseHost(alone).host
                  /\ ret.err = ParseHost(alone).err
                  /\ ~Contains(creds.Files[DockerEnv], DOCKER_HOST)
                        => ret.err = ErrNoDockerHost
        /\ (~Has(creds.Files, DockerEnv) /\ Has(creds.Files, KubectlConfig)) =>
              /\ ~Contains(creds.Files[KubectlConfig], SERVER)
                    => ret.err = ErrNoServer
              /\ Contains(creds.Files[KubectlConfig], SERVER)
                    => ret.err # ErrNoDockerHost

C2_Witness ==
    /\ ParseHostCalled
    /\ Has(creds.Files, DockerEnv) /\ Has(creds.Files, KubectlConfig)
    /\ ~Contains(creds.Files[DockerEnv], DOCKER_HOST)
    /\ creds.Files[KubectlConfig] = KubeValid
    /\ ret.err = ErrNoDockerHost

\* C3: ParseHost returns the missing-both error exactly when Files holds
\* neither docker.env nor kubectl.config, and then the host is empty.
C3_MissingEndpointSource ==
    ParseHostCalled =>
        /\ (ret.err = ErrMissingBoth) <=> ~HasEndpointFile(creds)
        /\ ~HasEndpointFile(creds) => ret.host = <<>>

C3_Witness ==
    /\ ParseHostCalled /\ creds.Err = nil
    /\ ~HasEndpointFile(creds)
    /\ ret.err = ErrMissingBoth /\ ret.host = <<>>

\* the well-formed endpoints: blanks, scheme://host:port, blanks
Blanks == {<<>>, <<" ">>, <<" ", " ">>}
Schemes == {<<"t","c","p">>, <<"h","t","t","p","s">>, <<"f","t","p">>}
HostNames == {<<"h">>, <<"g">>, <<"k">>, IPv6}
PortNumbers == {<<"1">>, <<"2">>}
WellFormed ==
    { [text |-> b1 \o s \o <<":","/","/">> \o h \o <<":">> \o p \o b2,
       hostport |-> h \o <<":">> \o p] :
      b1 \in Blanks, b2 \in Blanks, s \in Schemes, h \in HostNames,
      p \in PortNumbers }

\* C4: when the first matching line of the selected file is
\* <anything>TOKEN<ws><scheme>://<host>:<port><ws>, ParseHost returns
\* <host>:<port> and no error.
C4_HostPortExtracted ==
    (ParseHostCalled /\ HasEndpointFile(creds)) =>
        LET lines == SelectedLines(creds)
            token == SelectedToken(creds)
            once == OnceLines(lines, token)
        IN  once # {} =>
              \A w \in WellFormed :
                 After(lines[Least(once)], token) = w.text
                 => ret.err = nil /\ ret.host = w.hostport

C4_Witness ==
    /\ ParseHostCalled
    /\ Has(creds.Files, DockerEnv)
    /\ SelectedLines(creds)[1] =
          <<"e"," ">> \o DOCKER_HOST \o <<" ">> \o Tcp \o <<"h",":","1"," ">>
    /\ ret.err = nil /\ ret.host = <<"h",":","1">>

\* whether a colon follows the host name or the closing bracket of the host
HasPortColon(host) == LastIndex(host, <<":">>) > LastIndex(host, <<"]">>)

\* the candidate host of a call of ParseHost that found one
HasCandidate(c) ==
    HasEndpointFile(c) /\ OnceLines(SelectedLines(c), SelectedToken(c)) # {}
Candidate(c) ==
    LET lines == SelectedLines(c)
        token == SelectedToken(c)
    IN  TrimSpace(After(lines[Least(OnceLines(lines, token))], token))

\* C5: a candidate with scheme https and a host without a port yields the
\* host with :443 appended; a port that is given is kept.
C5_HttpsDefaultPort ==
    (ParseHostCalled /\ HasCandidate(creds)) =>
        LET u == urlParse(Candidate(creds))
        IN  (~u.err /\ u.Scheme = <<"h","t","t","p","s">> /\ u.Host # <<>>) =>
               /\ ret.err = nil
               /\ ret.host = IF HasPortColon(u.Host) THEN u.Host
                              ELSE u.Host \o <<":","4","4","3">>

\* C6: a candidate without a port whose scheme is not https makes ParseHost
\* fail with an empty host.
C6_NoPortNotHttpsFails ==
    (ParseHostCalled /\ HasCandidate(creds)) =>
        LET u == urlParse(Candidate(creds))
        IN  (~u.err /\ u.Scheme # <<"h","t","t","p","s">> /\ ~HasPortColon(u.Host)) =>
               /\ ret.err = ErrNoPort(Candidate(creds))
               /\ ret.host = <<>>

\* host:port with a non-empty host, a non-empty numeric port and no scheme
IsHostPort(s) ==
    LET i == LastIndex(s, <<":">>)
    IN  /\ i > 1 /\ i < Len(s)
        /\ \A k \in (i + 1)..Len(s) : s[k] \in Digits
        /\ ~Contains(s, <<":","/","/">>)

\* C7: a nil error comes with a string host:port, an error with "".
C7_HostPortOrEmpty ==
    ParseHostCalled =>
        /\ ret.err = nil => IsHostPort(ret.host)
        /\ ret.err # nil => ret.host = <<>>

\* C8 as claimed: a line that ends with the token does not match; the scan
\* goes on, and without another match the token-not-found error is returned.
C8_TokenAtEndNotFound ==
    (ParseHostCalled /\ HasEndpointFile(creds)) =>
        LET lines == SelectedLines(creds)
            token == SelectedToken(creds)
            found == {i \in OnceLines(lines, token) : After(lines[i], token) # <<>>}
        IN  IF found = {} THEN ret.err = TokenNotFound(creds)
            ELSE LET r == HostOfCandidate(TrimSpace(After(lines[Least(found)], token)))
                 IN  ret.host = r.host /\ ret.err = r.err

\* C8 as amended: a line that holds the token once, at its end, is a match
\* with an empty candidate host: when it is the first line the split breaks
\* in two, the scan stops there and ParseHost returns "" and the
\* could-not-determine-the-host-port error, whatever the later lines.
C8_TokenAtEndIsEmptyMatch ==
    (ParseHostCalled /\ HasEndpointFile(creds)) =>
        LET lines == SelectedLines(creds)
            token == SelectedToken(creds)
            once == OnceLines(lines, token)
        IN  (once # {} /\ After(lines[Least(once)], token) = <<>>) =>
               ret.host = <<>> /\ ret.err = ErrNoPort(<<>>)

C8_Witness ==
    /\ ParseHostCalled
    /\ Has(creds.Files, DockerEnv)
    /\ Len(SelectedLines(creds)) = 2
    /\ SelectedLines(creds)[1] = <<"e"," ">> \o DOCKER_HOST
    /\ SelectedLines(creds)[2] = <<"e"," ">> \o DOCKER_HOST \o Https \o <<"g",":","2">>
    /\ ret.err = ErrNoPort(<<>>)

\* C9: a line that holds the token more than once never supplies the
\* candidate host and does not end the scan: the result is that of the file
\* without these lines.
C9_RepeatedTokenSkipped ==
    (ParseHostCalled /\ HasEndpointFile(creds)) =>
        LET lines == SelectedLines(creds)
            token == SelectedToken(creds)
            rest == SelectSeq(lines, LAMBDA l : Occurrences(l, token) < 2)
            r == ParseHost(WithSelectedLines(creds, rest))
        IN  ret.host = r.host /\ ret.err = r.err

C9_Witness ==
    /\ ParseHostCalled
    /\ Has(creds.Files, DockerEnv)
    /\ Len(SelectedLines(creds)) = 2
    /\ Occurrences(SelectedLines(creds)[1], DOCKER_HOST) = 2
    /\ Occurrences(SelectedLines(creds)[2], DOCKER_HOST) = 1
    /\ ret.err = nil /\ ret.host = <<"g",":","2">>

\* C10: the first matching line alone decides: with the lines after it
\* removed or replaced by any other line, the result is the same.
C10_FirstMatchWins ==
    (ParseHostCalled /\ HasCandidate(creds)) =>
        LET lines == SelectedLines(creds)
            token == SelectedToken(creds)
            first == Least(OnceLines(lines, token))
            upTo == SubSeq(lines, 1, first)
        IN  \A later \in SeqsUpTo(DockerLines \cup KubeLines, 1) :
               LET r == ParseHost(WithSelectedLines(creds, upTo \o later))
               IN  ret.host = r.host /\ ret.err = r.err

C10_Witness ==
    /\ ParseHostCalled
    /\ Has(creds.Files, DockerEnv)
    /\ Len(SelectedLines(creds)) = 2
    /\ SelectedLines(creds)[1] = <<"e"," ">> \o DOCKER_HOST \o Tcp \o <<"h">>
    /\ SelectedLines(creds)[2] = <<"e"," ">> \o DOCKER_HOST \o Https \o <<"g",":","2">>
    /\ ret.host = <<>> /\ ret.err = ErrNoPort(Tcp \o <<"h">>)

(***************************************************************************)
(* GetTLSConfig and Verify.                                                 *)
(***************************************************************************)
GetTLSConfigCalled == pc = "loaded" /\ ret.op = "GetTLSConfig"
VerifyCalled == pc = "loaded" /\ ret.op = "Verify"

\* the certificates ca.pem of the bundle holds
CertsOfCA(c) == IF IsCertificatePEM(GetCA(c)) THEN {GetCA(c)} ELSE {}
\* cert.pem and key.pem of the bundle are a certificate and its key
ValidPair(c) == \E n \in PairIds : GetCert(c) = CertOf(n) /\ GetKey(c) = KeyOf(n)

\* C11: the TLS configuration GetTLSConfig returns, with or without an
\* error, has InsecureSkipVerify set and a root pool that holds the
\* certificates of the bundle's ca.pem and nothing else, whatever was
\* returned by the calls before it.
C11_PoolFromCAOnly ==
    GetTLSConfigCalled =>
        /\ ret.tls.InsecureSkipVerify = TRUE
        /\ ret.tls.RootCAs = CertsOfCA(creds)

C11_Witness ==
    /\ GetTLSConfigCalled
    /\ GetCert(creds) = CertOf("1")
    /\ ret.tls.RootCAs = {CAOf("1")}

\* C12: with a valid cert.pem and key.pem, and a ca.pem that is absent or
\* holds no certificate, GetTLSConfig returns no error and an empty pool.
C12_BadCAIsNotAnError ==
    (GetTLSConfigCalled /\ ValidPair(creds) /\ CertsOfCA(creds) = {}) =>
        ret.err = nil /\ ret.tls.RootCAs = {}

C12_Witness ==
    /\ GetTLSConfigCalled
    /\ ValidPair(creds)
    /\ Has(creds.Files, CaPem) /\ GetCA(creds) = Garbage
    /\ ret.err = nil

\* C13: GetTLSConfig returns the key pair error when cert.pem and key.pem
\* are not a certificate and its key (one of them missing, malformed, or of
\* another pair), whatever ca.pem holds; it returns no error exactly when
\* they are, and the configuration then holds the one certificate made of
\* the two.
C13_KeypairDecides ==
    GetTLSConfigCalled =>
        /\ (ret.err = nil) <=> ValidPair(creds)
        /\ ~ValidPair(creds) => ret.err = ErrKeypair
        /\ ValidPair(creds) =>
              ret.tls.Certificates = << <<GetCert(creds), GetKey(creds)>> >>

C13_Witness ==
    /\ GetTLSConfigCalled
    /\ GetCert(creds) = CertOf("1") /\ GetKey(creds) = KeyOf("2")
    /\ GetCA(creds) = CAOf("1")
    /\ ret.err = ErrKeypair

\* C14: Verify returns the error of the first step that fails, in the order
\* Err of the bundle, GetTLSConfig, ParseHost, dial; it dials only when the
\* first three have succeeded, and returns nil only when the dial has too.
C14_FirstFailureInOrder ==
    VerifyCalled =>
        LET t == GetTLSConfig(creds)
            h == ParseHost(creds)
        IN  /\ creds.Err # nil => ret.err = creds.Err
            /\ (creds.Err = nil /\ t.err # nil) => ret.err = t.err
            /\ (creds.Err = nil /\ t.err = nil /\ h.err # nil) => ret.err = h.err
            /\ (creds.Err = nil /\ t.err = nil /\ h.err = nil) =>
                  /\ ret.dialed = <<h.host>>
                  /\ ret.err \in {nil, ErrConnect(h.host)}
            /\ ret.dialed # <<>> => (creds.Err = nil /\ t.err = nil /\ h.err = nil)
            /\ ret.err = nil => ret.dialed # <<>>

C14_Witness ==
    /\ VerifyCalled
    /\ creds.Err = nil
    /\ GetTLSConfig(creds).err # nil /\ ParseHost(creds).err # nil
    /\ ret.err = ErrKeypair /\ ret.dialed = <<>>

\* C15: a call of Verify dials at most once, and leaves no connection open.
C15_OneDialNoneOpen ==
    VerifyCalled => Len(ret.dialed) <= 1 /\ ret.open = 0

C15_Witness ==
    /\ VerifyCalled
    /\ ret.err = nil
    /\ ret.dialed = << <<"h",":","1">> >>

(***************************************************************************)
(* LoadCredentialsBundle.                                                   *)
(***************************************************************************)
Loaded == pc = "loaded"

\* the positions, in the listing of the directory, of the entries whose read
\* fails
FailingEntries(d) ==
    {i \in 1..Len(ReadDir(d)) : ReadFileFails(d, ReadDir(d)[i])}

\* C16: from a directory that can be listed and whose regular files can all
\* be read, LoadCredentialsBundle returns a bundle with a nil Err whose Files
\* holds one key per regular file, with the bytes of the file.
C16_AllRegularFilesLoaded ==
    (Loaded /\ disk.listable /\ DOMAIN disk.files \cap disk.unreadable = {}) =>
        creds.Err = nil /\ creds.Files = disk.files

\* C17: LoadCredentialsBundle returns a bundle whose Err is set exactly when
\* the listing of the directory or the read of an entry failed; after a
\* failed listing Files is empty; after a failed read Err names the first
\* entry whose read failed and Files holds the entries listed before it,
\* with their bytes, and no other.
C17_FailureDeferredToErr ==
    Loaded =>
        LET entries == ReadDir(disk)
            failing == FailingEntries(disk)
        IN  /\ (creds.Err # nil) <=> (~disk.listable \/ failing # {})
            /\ ~disk.listable =>
                  creds.Err = ErrCannotList /\ DOMAIN creds.Files = {}
            /\ (disk.listable /\ failing # {}) =>
                  /\ creds.Err = ErrCannotRead(entries[Least(failing)])
                  /\ DOMAIN creds.Files =
                        {entries[j] : j \in 1..(Least(failing) - 1)}
                  /\ \A n \in DOMAIN creds.Files : creds.Files[n] = disk.files[n]

C17_Witness ==
    /\ Loaded
    /\ disk.listable
    /\ SubDir \in disk.subdirs /\ KeyPem \in disk.unreadable
    /\ DOMAIN disk.files = {CaPem, CertPem, DockerEnv, KeyPem}
    /\ creds.Err = ErrCannotRead(SubDir)
    /\ DOMAIN creds.Files = {CaPem, CertPem}

(***************************************************************************)
(* The client.                                                              *)
(***************************************************************************)
\* the last call was one of the CarinaClient
ClusterClientOps == {"ClusterClient.GetCredentials", "ClusterClient.GetDockerConfig"}
ClientCalled == pc = "client" /\ out.op \notin {"none"} \cup ClusterClientOps
GetCredentialsCalled == pc = "client" /\ out.op = "GetCredentials"

\* what follows the last "/" of the name of an entry
BaseName(name) == Split(name, Slash)[Len(Split(name, Slash))]

\* the positions of the entries of an archive that are not directories, and
\* of those of them that cannot be opened or read
NonDirs(files) == {i \in 1..Len(files) : ~IsDir(files[i])}
Unreadable(files) == {i \in NonDirs(files) : files[i].fails # ""}
EntryError(zf) == IF zf.fails = "Open" THEN ErrOpen(zf.Name) ELSE ErrReadAll(zf.Name)

\* the last request of the call fetched the archive of the server
ZipFetched ==
    /\ out.reqs # <<>>
    /\ Route("GET", out.reqs[Len(out.reqs)].URL) = "zip"
    /\ out.reqs[Len(out.reqs)].StatusCode \in 1..399

\* C18: the keys of the bundle GetCredentials returns are the base names of
\* the entries of the archive that are not directories: no key holds a "/",
\* and no key is the name of a directory entry.
C18_KeysAreBaseNames ==
    (GetCredentialsCalled /\ ~out.result.isNil) =>
        LET files == api["zip"].Body.value
            keys == DOMAIN out.result.val.Files
        IN  /\ keys = {BaseName(files[i].Name) : i \in NonDirs(files)}
            /\ \A k \in keys :
                  /\ ~Contains(k, Slash)
                  /\ \A i \in 1..Len(files) :
                        IsDir(files[i]) => files[i].Name \notin {k, k \o Slash}

C18_Witness ==
    /\ GetCredentialsCalled
    /\ ~out.result.isNil
    /\ Len(api["zip"].Body.value) = 2
    /\ api["zip"].Body.value[1].Name = <<"u", "/">>
    /\ api["zip"].Body.value[2].Name = <<"u", "/", "ca.pem">>
    /\ DOMAIN out.result.val.Files = {<<"ca.pem">>}

\* C19: when what is fetched is not a ZIP archive, or an entry that is not a
\* directory cannot be opened or read, GetCredentials returns a nil bundle
\* and that error, the one of the first such entry; the bundle it returns
\* otherwise has a nil Err, and comes with a nil error.
C19_ArchiveErrorReturned ==
    GetCredentialsCalled =>
        /\ ~out.result.isNil => (out.result.val.Err = nil /\ out.err = nil)
        /\ ZipFetched =>
              LET body == api["zip"].Body
              IN  /\ ~body.valid => (out.result.isNil /\ out.err = ErrZip)
                  /\ (body.valid /\ Unreadable(body.value) # {}) =>
                        /\ out.result.isNil
                        /\ out.err =
                              EntryError(body.value[Least(Unreadable(body.value))])
                  /\ (body.valid /\ Unreadable(body.value) = {}) =>
                        ~out.result.isNil

C19_Witness ==
    /\ GetCredentialsCalled
    /\ ZipFetched
    /\ Len(api["zip"].Body.value) = 2
    /\ api["zip"].Body.value[1].Name = <<"ca.pem">>
    /\ api["zip"].Body.value[2].Name = <<"cert.pem">>
    /\ out.result.isNil
    /\ out.err = ErrOpen(<<"cert.pem">>)

\* the status the server answers a request with (0: no answer)
StatusOf(a, req) ==
    IF Do(a, req.Method, req.URL).sent
    THEN Do(a, req.Method, req.URL).StatusCode ELSE 0

\* C20: a call of the client whose request is answered with a status of 400
\* or more sends no other request and returns a nil result and the HTTPErr
\* of that request and status; so does every call when the server answers
\* every request with such a status; no call returns both a result and an
\* error; NewRequest returns the response and a nil error for a status
\* under 400.
C20_ErrorStatusIsHTTPErr ==
    ClientCalled =>
        /\ \A i \in 1..Len(out.reqs) :
              /\ out.reqs[i].StatusCode = StatusOf(api, out.reqs[i])
              /\ out.reqs[i].StatusCode >= 400 =>
                    /\ i = Len(out.reqs)
                    /\ out.result.isNil
                    /\ out.err = HTTPErr(out.reqs[i].Method, out.reqs[i].URL,
                                         out.reqs[i].StatusCode)
        /\ (\A r \in Routes : api[r].sent /\ api[r].StatusCode >= 400) =>
              /\ out.result.isNil
              /\ out.err.kind = "HTTPErr"
              /\ out.err.arg[1] = api["list"].StatusCode
        /\ ~out.result.isNil => out.err = nil
        /\ (out.op = "NewRequest" /\ out.reqs[1].StatusCode \in 1..399) =>
              /\ out.result = Some(Do(api, out.reqs[1].Method, out.reqs[1].URL))
              /\ out.err = nil

C20_Witness ==
    /\ ClientCalled
    /\ out.op = "GetCredentials" /\ out.arg = ID1
    /\ Len(out.reqs) = 2
    /\ out.reqs[1].StatusCode = 200
    /\ out.reqs[2].StatusCode = 406
    /\ out.result.isNil
    /\ out.err = HTTPErr("GET", out.reqs[2].URL, 406)

(***************************************************************************)
(* The API metadata.                                                        *)
(***************************************************************************)
IsSupportedVersionCalled == pc = "client" /\ out.op = "IsSupportedVersion"
GetSupportedVersionRangeCalled ==
    pc = "client" /\ out.op = "GetSupportedVersionRange"

\* a version as one number (the numbers of the model are under 100)
Weight(v) == v.major * 10000 + v.minor * 100 + v.patch
\* both bounds of an advertised version are versions
Parses(e) == NewVersion(e.Minimum).ok /\ NewVersion(e.Maximum).ok
\* the element of a set of versions that is under, or over, the others
LeastOf(S) == CHOOSE v \in S : \A w \in S : Weight(v) <= Weight(w)
GreatestOf(S) == CHOOSE v \in S : \A w \in S : Weight(v) >= Weight(w)
Entries(metadata) == {metadata.Versions[i] : i \in 1..Len(metadata.Versions)}

\* C21: IsSupportedVersion returns true exactly when an advertised version
\* whose bounds are versions has Minimum <= 1.0 <= Maximum; the other
\* entries are skipped, and no entry gives false.
C21_SupportedIffInRange ==
    IsSupportedVersionCalled =>
        (out.result.val <=>
            \E e \in Entries(out.arg) :
                /\ Parses(e)
                /\ Weight(NewVersion(e.Minimum)) <= 10000
                /\ 10000 <= Weight(NewVersion(e.Maximum)))

C21_Witness ==
    /\ IsSupportedVersionCalled
    /\ out.arg.Versions = <<APIVersion(NoVersion, SupportedAPIVersion),
                            APIVersion(V09, V20)>>
    /\ out.result.val = TRUE

C29_UnparseableIgnored ==
    GetSupportedVersionRangeCalled =>
        /\ ~out.result.val.panics
        /\ out.result.val = RangeOf(ParsedBounds(out.arg.Versions, 1))

(***************************************************************************)
(* The methods of a bundle and the bundle.                                  *)
(***************************************************************************)
\* a step from a loaded bundle is a call of one of its methods
MethodCall == pc = "loaded" /\ pc' = "loaded"

NameFor(token) == IF isClusterID(token) THEN Cluster1.Name ELSE token

\* the line that sets CARINA_CLUSTER_NAME in a script, by the name of the
\* file; nothing for a file that is no script
ClusterNameLine(fileName, name) ==
    CASE fileName \in {<<"docker.env">>, <<"kubectl.env">>} ->
            <<"export CARINA_CLUSTER_NAME=">> \o name \o <<"\n">>
      [] fileName \in {<<"docker.fish">>, <<"kubectl.fish">>} ->
            <<"set -x CARINA_CLUSTER_NAME ">> \o name \o <<"\n">>
      [] fileName \in {<<"docker.ps1">>, <<"kubectl.ps1">>} ->
            <<"$env:CARINA_CLUSTER_NAME=\"">> \o name \o <<"\"", "\n">>
      [] fileName \in {<<"docker.cmd">>, <<"kubectl.cmd">>} ->
            <<"set CARINA_CLUSTER_NAME=">> \o name \o <<"\n">>
      [] OTHER -> <<>>

\* C24: the bundle GetCredentials returns has the keys of the entries read
\* from the archive; docker.env, kubectl.env, docker.fish, kubectl.fish,
\* docker.ps1, kubectl.ps1, docker.cmd and kubectl.cmd hold the bytes read
\* followed by one line that sets CARINA_CLUSTER_NAME, and every other file
\* holds the bytes read.
C24_OnlyScriptsAppended ==
    (GetCredentialsCalled /\ ~out.result.isNil) =>
        LET read == ReadEntries(api["zip"].Body.value, 1, NewCredentialsBundle).creds
            files == out.result.val.Files
        IN  /\ DOMAIN files = DOMAIN read.Files
            /\ \A n \in DOMAIN files :
                  files[n] = read.Files[n] \o ClusterNameLine(n, NameFor(out.arg))

C24_Witness ==
    /\ GetCredentialsCalled
    /\ ~out.result.isNil
    /\ out.arg = ID1
    /\ DOMAIN out.result.val.Files = {<<"ca.pem">>, <<"docker.ps1">>}
    /\ out.result.val.Files[<<"ca.pem">>] = CAOf("1")
    /\ out.result.val.Files[<<"docker.ps1">>] =
          <<"$env:DOCKER_HOST=\"h:1\"", "\n",
            "$env:CARINA_CLUSTER_NAME=\"", "a", "\"", "\n">>

(***************************************************************************)
(* The calls by cluster name.                                               *)
(***************************************************************************)
ByTokenCalled ==
    pc = "client" /\ out.op \in {"Get", "Delete", "GetCredentials"}

\* the clusters listed whose name is the token, whatever the case
Matches(clusters, token) ==
    {i \in 1..Len(clusters) : ToLower(clusters[i].Name) = ToLower(token)}

\* the requests of the last call that are for a cluster
ClusterRequests ==
    {i \in 1..Len(out.reqs) :
        Route(out.reqs[i].Method, out.reqs[i].URL) \in {"item", "zip"}}

\* the list of clusters was asked for first, and received
Listed ==
    /\ out.reqs # <<>>
    /\ Route(out.reqs[1].Method, out.reqs[1].URL) = "list"
    /\ out.reqs[1].StatusCode \in 1..399
    /\ api["list"].Body.valid

\* C26: Get, Delete and GetCredentials, given a name and the list of
\* clusters, send a request for a cluster only when one cluster of the list
\* has that name, whatever the case, and then for the id of that cluster;
\* with no such cluster they return an HTTPErr of status 404, with more than
\* one the not-unique error.  Given a cluster id, they send their request
\* for that id, and Get and Delete do not ask for the list.
C26_UniqueNameOrNoRequest ==
    ByTokenCalled =>
        /\ (~isClusterID(out.arg) /\ Listed) =>
              LET clusters == api["list"].Body.value
                  matches == Matches(clusters, out.arg)
              IN  /\ matches = {} =>
                        /\ out.result.isNil /\ out.err = ErrNotFound(out.arg)
                        /\ out.err.kind = "HTTPErr" /\ out.err.arg[1] = 404
                        /\ ClusterRequests = {}
                  /\ Cardinality(matches) > 1 =>
                        /\ out.result.isNil /\ out.err = ErrNotUnique(out.arg)
                        /\ ClusterRequests = {}
                  /\ Cardinality(matches) = 1 =>
                        /\ ClusterRequests = {2}
                        /\ HasPrefix(out.reqs[2].URL,
                              CarinaEndpoint \o ClusterURI(clusters[Least(matches)].ID))
        /\ ~isClusterID(out.arg) => (out.reqs # <<>> /\ 1 \notin ClusterRequests)
        /\ isClusterID(out.arg) =>
              /\ \A i \in ClusterRequests :
                    HasPrefix(out.reqs[i].URL, CarinaEndpoint \o ClusterURI(out.arg))
              /\ out.op \in {"Get", "Delete"} => ClusterRequests = {1}

C26_Witness ==
    /\ ByTokenCalled
    /\ out.op = "Delete" /\ out.arg = <<"a">>
    /\ api["list"].Body.value = <<Cluster(ID2, <<"A">>), Cluster1>>
    /\ out.err = ErrNotUnique(<<"a">>)
    /\ Len(out.reqs) = 1

(***************************************************************************)
(* The keys of a bundle built from an archive.                              *)
(***************************************************************************)
\* the positions of the entries of an archive, not directories, of a base
\* name
EntriesNamed(files, name) ==
    {i \in NonDirs(files) : BaseName(files[i].Name) = name}
Greatest(S) == CHOOSE i \in S : \A j \in S : i >= j

\* C27: the bundle GetCredentials returns has one key for each base name of
\* the entries of the archive that are not directories, and under it the
\* content of the last entry of that base name (followed, in a script, by
\* the line of the cluster name).
C27_LastEntryOfNameWins ==
    (GetCredentialsCalled /\ ~out.result.isNil) =>
        LET files == api["zip"].Body.value
            bundle == out.result.val.Files
        IN  /\ Cardinality(DOMAIN bundle) =
                  Cardinality({BaseName(files[i].Name) : i \in NonDirs(files)})
            /\ \A n \in DOMAIN bundle :
                  bundle[n] = files[Greatest(EntriesNamed(files, n))].Content
                                  \o ClusterNameLine(n, NameFor(out.arg))

C27_Witness ==
    /\ GetCredentialsCalled
    /\ ~out.result.isNil
    /\ Len(api["zip"].Body.value) = 2
    /\ api["zip"].Body.value[1].Name = <<"u", "/", "ca.pem">>
    /\ api["zip"].Body.value[2].Name = <<"ca.pem">>
    /\ DOMAIN out.result.val.Files = {<<"ca.pem">>}
    /\ out.result.val.Files[<<"ca.pem">>] = CAOf("1")

(***************************************************************************)
(* NewClient.                                                               *)
(***************************************************************************)
NewClientCalled == pc = "start" /\ out.op = "NewClient"

\* the requests of the last call by their method: the verifications of a
\* token and the authentications by API key
Verifications == {i \in 1..Len(out.reqs) : out.reqs[i].Method = "HEAD"}
Authentications == {i \in 1..Len(out.reqs) : out.reqs[i].Method = "POST"}

\* C25: NewClient verifies a token that is not empty, first and once, and no
\* empty token; when the verification is answered with 200 it returns a
\* client with that token and does not authenticate by API key; otherwise
\* it authenticates once, and returns a client with the token issued, or a
\* nil client and the error when the authentication fails.
C25_TokenThenAPIKey ==
    NewClientCalled =>
        /\ Verifications = (IF out.arg = <<>> THEN {} ELSE {1})
        /\ out.arg # <<>> => out.reqs[1].URL = IdentityTokens \o out.arg
        /\ (out.arg # <<>> /\ out.reqs[1].StatusCode = 200) =>
              /\ Authentications = {}
              /\ ~out.result.isNil /\ out.result.val.Token = out.arg
              /\ out.err = nil
        /\ (out.arg = <<>> \/ out.reqs[1].StatusCode # 200) =>
              /\ Authentications = {Len(out.reqs)}
              /\ out.reqs[Len(out.reqs)].StatusCode = 200 =>
                    /\ ~out.result.isNil /\ out.result.val.Token = IssuedToken
                    /\ out.err = nil
              /\ out.reqs[Len(out.reqs)].StatusCode # 200 =>
                    out.result.isNil /\ out.err = ErrAuthentication

C25_Witness ==
    /\ NewClientCalled
    /\ out.arg = CachedToken
    /\ Len(out.reqs) = 2
    /\ out.reqs[1].StatusCode = 401
    /\ out.reqs[2].StatusCode = 200
    /\ out.result.val.Token = IssuedToken

(***************************************************************************)
(* The ClusterClient revision.                                              *)
(***************************************************************************)
ClusterGetCredentialsCalled ==
    pc = "client" /\ out.op = "ClusterClient.GetCredentials"

\* C28: ClusterClient.GetCredentials returns a Credentials that is not nil
\* or an error that is not nil, whatever the archive.
C28_CredentialsOrError ==
    ClusterGetCredentialsCalled => (~out.result.isNil \/ out.err # nil)

(***************************************************************************)
(* The command-line tool.                                                   *)
(***************************************************************************)
MainCalled == pc = "start" /\ out.op = "main"

\* the command line of the last run is valid: the credentials are set, and
\* there is a command, with a cluster name unless it is "list"
ValidRun ==
    /\ out.arg[1]
    /\ Len(out.arg[2]) >= 1
    /\ (out.arg[2][1] = "list" \/ Len(out.arg[2]) >= 2)

\* C30: rcs-cli exits with 0 only if the command is one of list, get,
\* create, delete, credentials, docker-info and the call of the API behind
\* it returned no error; a run that does not exit with 0 for an error of the
\* API or an unknown command has printed the error; a run with invalid
\* arguments or without credentials exits with another status than 0 and
\* sends no request.
C30_ZeroOnlyOnSuccess ==
    MainCalled =>
        /\ out.result.val.exitCode = 0 =>
              /\ ValidRun
              /\ out.arg[2][1] \in Commands
              /\ out.arg[3] = nil
        /\ (ValidRun /\ out.result.val.exitCode # 0) => out.result.val.printed # <<>>
        /\ ~ValidRun => (out.result.val.exitCode # 0 /\ out.reqs = <<>>)

====
